---- MODULE Spec2Model ----
(***************************************************************************)
(* Fosen VPN: the session protocol of vpn_server.py (ClientHandler,        *)
(* VPNServer, VPNProtocol, VPNEncryption) as a state machine.              *)
(*                                                                         *)
(* Cryptography is symbolic.  A derived key is the pair of the HMAC key    *)
(* the password makes and the salt (PBKDF2 is a function of the two and    *)
(* taken to be collision free in them).  A                                 *)
(* ciphertext blob is a record naming the key it was sealed under, its     *)
(* nonce and its plaintext, and it opens under that key only (AES-GCM tag  *)
(* verification).  Bytes on the wire are frames (header fields + payload)  *)
(* and a read returns a chunk: a frame together with how much of it the    *)
(* read delivered.                                                         *)
(***************************************************************************)
EXTENDS Integers, Sequences, FiniteSets, TLC

VARIABLES
    users,           \* VPNServer.users: the dict, as its entry slots in insertion order
    server_running,  \* VPNServer.running / the listening socket and the accept loop:
                     \* "new", "running", "stopped" (stop() was called, the loop is
                     \* still inside accept()), "returned" (start() has returned)
    clients,         \* one ClientHandler per connection id
    recorded,        \* frames an eavesdropper captured on the legitimate connection
    handshaken,      \* the connections on which the server has answered a Handshake
    ev,              \* the step just taken: who acted, on which frame, what was sent
    client,          \* the VPNClient object and its keepalive threads
    c2s,             \* per connection: frames the client wrote that the server has not read
    s2c,             \* per connection: frames the server wrote that the client has not read
    cev,             \* the client call just made: what it read, wrote and returned
    engine,          \* a VPNEncryption object used on its own, and what it has returned
    call,            \* the call of VPNProtocol or VPNEncryption just made on its own
    other            \* a second VPNEncryption object, built beside the first

vars == <<users, server_running, clients, recorded, handshaken, ev, client, c2s, s2c, cev,
          engine, call, other>>
\* the state of the client side
cvars == <<client, c2s, s2c, cev>>
\* the state of the sessions: the server, its handlers, the client, the wires
svars == <<users, server_running, clients, recorded, handshaken, ev, client, c2s, s2c, cev>>
\* the codec and the cipher engine exercised outside any session
lvars == <<engine, call, other>>

----------------------------------------------------------------------------
(* Bounds of the model *)

\* entry slots of the users dict; a dict literal of three items holds five
\* entries before CPython resizes (and compacts) it
MaxSlots == 4

\* frames in flight in one direction of one connection
MaxWire == 2

----------------------------------------------------------------------------
(* VPNProtocol constants *)

MAGIC_BYTES == "DEADBEEF"
VERSION == 1
MSG_HANDSHAKE == 1
MSG_AUTH == 2
MSG_DATA == 3
MSG_KEEPALIVE == 4
MSG_DISCONNECT == 5
MSG_AUTH_SUCCESS == 6
MSG_AUTH_FAILURE == 7
\* nonce + tag: the shortest blob decrypt accepts
MinBlobLen == 32

----------------------------------------------------------------------------
(* Values *)

Conns == {1, 2}
\* connection 1 is opened by a peer that holds directory passwords,
\* connection 2 by one that holds none and has recorded connection 1
Legit == 1
Attacker == 2

NoUser == "<None>"       \* ClientHandler.username = None
NoSalt == "<unset>"      \* ClientHandler has no attribute client_salt
NoEncryption == <<>>     \* ClientHandler.encryption = None
BadBase64 == "<not base64>"

Salts == {"s1", "s2"}
Nonces == {"n1", "n2"}

\* payloads
EmptyPayload == [kind |-> "empty"]
\* bytes that are neither JSON nor a blob any key opens
RawPayload(len) == [kind |-> "raw", len |-> len]
HandshakeRequest(v, s) == [kind |-> "hs", client_version |-> v, encryption_salt |-> s]
HandshakeResponse == [kind |-> "hsreply", server_version |-> VERSION, status |-> "ok"]

\* plaintexts
AuthData(u) == [fmt |-> "json", username |-> u]
Text(s) == [fmt |-> "text", s |-> s]
Binary == [fmt |-> "bin"]       \* bytes that are not valid UTF-8
Echo(pt) == [fmt |-> "echo", of |-> pt]   \* "Echo: " followed by pt

----------------------------------------------------------------------------
(* VPNProtocol: framing *)

\* a frame: header fields and payload (the length field is the payload's length)
create_packet(msg_type, data) ==
    [magic |-> MAGIC_BYTES, version |-> VERSION, type |-> msg_type, payload |-> data]

\* what one recv returned: a frame and how much of it arrived.
\*   "none"    no bytes (the peer closed)      "short"   fewer than 10 bytes
\*   "partial" the header, not all the payload "exact"   the whole frame
\*   "more"    the whole frame followed by bytes of later frames
Chunk(avail, frame) == [avail |-> avail, frame |-> frame]

\* the whole messages one read returned, in the order the peer wrote them;
\* the message behind the first one in a "more" read is a Keepalive
Delivered(data) ==
    CASE data.avail = "exact" -> << data.frame >>
      [] data.avail = "more" ->
            << data.frame,
               [magic |-> MAGIC_BYTES, version |-> VERSION,
                type |-> MSG_KEEPALIVE, payload |-> EmptyPayload] >>
      [] OTHER -> <<>>

ParseError(e) == [ok |-> FALSE, err |-> e, type |-> 0, payload |-> EmptyPayload]

parse_packet(data) ==
    IF data.avail = "short" THEN ParseError("Packet too short")
    ELSE IF data.frame.magic # MAGIC_BYTES THEN ParseError("Invalid magic bytes")
    ELSE IF data.frame.version # VERSION THEN ParseError("Unsupported version")
    ELSE IF data.avail = "partial" THEN ParseError("Incomplete packet")
    ELSE [ok |-> TRUE, err |-> "", type |-> data.frame.type, payload |-> data.frame.payload]

----------------------------------------------------------------------------
(* VPNEncryption *)

\* the password "x" followed by one NUL character
NulPadded == "x<NUL>"

\* the key HMAC-SHA256 works with: password.encode() padded with zero bytes
\* to the 64 bytes of a block, so that a password and the same password
\* followed by NUL characters make one key
hmac_key(password) == IF password = NulPadded THEN "x" ELSE password

\* _derive_key with the salt left out of the derivation
derive_key_NoSalt(password, salt) == <<hmac_key(password), NoSalt>>

\* PBKDF2-HMAC-SHA256(password, salt, 100000 iterations)
derive_key(password, salt) == <<hmac_key(password), salt>>

\* AES-256-GCM under a fresh nonce iv: iv || tag || ciphertext
encrypt(key, data, iv) == [kind |-> "blob", key |-> key, iv |-> iv, pt |-> data]

\* whether a payload is at least nonce + tag long
LongEnough(payload) ==
    CASE payload.kind = "empty" -> FALSE
      [] payload.kind = "raw" -> payload.len >= MinBlobLen
      [] OTHER -> TRUE

DecryptError == [ok |-> FALSE, pt |-> Binary]

\* raises unless the blob is long enough and its tag verifies under key
decrypt(key, data) ==
    IF ~LongEnough(data) THEN DecryptError
    ELSE IF data.kind = "blob" /\ data.key = key THEN [ok |-> TRUE, pt |-> data.pt]
    ELSE DecryptError

\* bytes.decode(): fails on bytes that are not UTF-8
Decodable(pt) == pt.fmt # "bin"

\* json.loads(pt.decode()).get('username') == username
UsernameIs(pt, username) == pt.fmt = "json" /\ pt.username = username

----------------------------------------------------------------------------
(* VPNServer.users: a dict keeps its entries in insertion order; deleting a *)
(* key leaves a dead slot and a new key takes a slot at the end             *)

Entry(u, p) == [name |-> u, password |-> p, live |-> TRUE]
DeadSlot == [name |-> "", password |-> "", live |-> FALSE]

DefaultUsers ==
    << Entry("admin", "admin123"), Entry("user1", "password1"), Entry("user2", "password2") >>

LiveSlots(dict) == {i \in 1..Len(dict) : dict[i].live}
\* len(dict)
Used(dict) == Cardinality(LiveSlots(dict))
\* username in dict
HasUser(dict, u) == \E i \in LiveSlots(dict) : dict[i].name = u
SlotOf(dict, u) == CHOOSE i \in LiveSlots(dict) : dict[i].name = u
\* dict[username]
PasswordOf(dict, u) == dict[SlotOf(dict, u)].password
UserNames(dict) == {dict[i].name : i \in LiveSlots(dict)}
Passwords(dict) == {dict[i].password : i \in LiveSlots(dict)}

\* add_user keeping the password of a user that is already there
add_user_KeepOld(dict, u, p) ==
    IF HasUser(dict, u) THEN dict
    ELSE Append(dict, Entry(u, p))

\* self.users[username] = password
add_user(dict, u, p) ==
    IF HasUser(dict, u) THEN [dict EXCEPT ![SlotOf(dict, u)].password = p]
    ELSE Append(dict, Entry(u, p))

\* if username in self.users: del self.users[username]
remove_user(dict, u) ==
    IF HasUser(dict, u) THEN [dict EXCEPT ![SlotOf(dict, u)] = DeadSlot]
    ELSE dict

----------------------------------------------------------------------------
(* ClientHandler *)

\* the dict iterator of "for username, password in self.users.items()":
\* the payload being tried, the last slot visited, the dict's size when the
\* loop began, the number of items the iterator still expects and (for the
\* record only: no code reads it) the dict as it was when the loop began
Iter(payload, pos, used, left, began) ==
    [payload |-> payload, pos |-> pos, used |-> used, left |-> left, began |-> began]
NoIter == Iter(EmptyPayload, 0, 0, 0, <<>>)

\* ClientHandler.__init__
NewHandler ==
    [st |-> "open", encryption |-> NoEncryption, authenticated |-> FALSE,
     username |-> NoUser, running |-> TRUE, client_salt |-> NoSalt,
     pc |-> "recv", it |-> NoIter]
\* a connection id no client has connected on yet
FreeSlot == [NewHandler EXCEPT !.st = "free"]

\* what a handler leaves behind: its fields and the packets it wrote
Result(h, sent) == [h |-> h, sent |-> sent]

send_auth_success == create_packet(MSG_AUTH_SUCCESS, EmptyPayload)
send_auth_failure == create_packet(MSG_AUTH_FAILURE, EmptyPayload)

\* handle_handshake resetting the session on every accepted Handshake
handle_handshake_Reset(h, payload) ==
    IF payload.kind # "hs" THEN Result(h, <<>>)
    ELSE IF payload.encryption_salt = BadBase64 THEN Result(h, <<>>)
    ELSE IF payload.client_version # VERSION THEN Result(h, <<>>)
    ELSE Result([h EXCEPT !.client_salt = payload.encryption_salt,
                          !.authenticated = FALSE, !.username = NoUser,
                          !.encryption = NoEncryption],
                << create_packet(MSG_HANDSHAKE, HandshakeResponse) >>)

\* handle_handshake storing the salt before it checks the version
handle_handshake_SaltFirst(h, payload) ==
    IF payload.kind # "hs" THEN Result(h, <<>>)
    ELSE IF payload.encryption_salt = BadBase64 THEN Result(h, <<>>)
    ELSE IF payload.client_version # VERSION
    THEN Result([h EXCEPT !.client_salt = payload.encryption_salt], <<>>)
    ELSE Result([h EXCEPT !.client_salt = payload.encryption_salt],
                << create_packet(MSG_HANDSHAKE, HandshakeResponse) >>)

handle_handshake(h, payload) ==
    IF payload.kind # "hs" THEN Result(h, <<>>)                       \* json.loads raises
    ELSE IF payload.encryption_salt = BadBase64 THEN Result(h, <<>>)  \* b64decode raises
    ELSE IF payload.client_version # VERSION THEN Result(h, <<>>)
    ELSE Result([h EXCEPT !.client_salt = payload.encryption_salt],
                << create_packet(MSG_HANDSHAKE, HandshakeResponse) >>)

\* handle_auth without the test for a recorded salt
handle_auth_NoSaltCheck(h, payload, dict) ==
    Result([h EXCEPT !.pc = "scan",
                     !.it = Iter(payload, 0, Used(dict), Used(dict), dict)], <<>>)

\* up to the start of the loop over self.users.items(); AuthScan runs the loop
handle_auth(h, payload, dict) ==
    IF h.client_salt = NoSalt THEN Result(h, << send_auth_failure >>)
    ELSE Result([h EXCEPT !.pc = "scan",
                          !.it = Iter(payload, 0, Used(dict), Used(dict), dict)], <<>>)

\* handle_data answering unauthenticated Data with an explicit rejection
handle_data_Reject(h, payload, iv) ==
    IF ~h.authenticated THEN Result(h, << send_auth_failure >>)
    ELSE LET d == decrypt(h.encryption, payload) IN
         IF ~d.ok THEN Result(h, <<>>)
         ELSE IF ~Decodable(d.pt) THEN Result(h, <<>>)
         ELSE Result(h, << create_packet(MSG_DATA, encrypt(h.encryption, Echo(d.pt), iv)) >>)

\* handle_data letting a failed decryption end the receive loop
handle_data_Raise(h, payload, iv) ==
    IF ~h.authenticated THEN Result(h, <<>>)
    ELSE LET d == decrypt(h.encryption, payload) IN
         IF ~d.ok THEN Result([h EXCEPT !.running = FALSE], <<>>)
         ELSE IF ~Decodable(d.pt) THEN Result(h, <<>>)
         ELSE Result(h, << create_packet(MSG_DATA, encrypt(h.encryption, Echo(d.pt), iv)) >>)

handle_data(h, payload, iv) ==
    IF ~h.authenticated THEN Result(h, <<>>)
    ELSE LET d == decrypt(h.encryption, payload) IN
         IF ~d.ok THEN Result(h, <<>>)                  \* decrypt raises: logged
         ELSE IF ~Decodable(d.pt) THEN Result(h, <<>>)  \* decode raises: logged
         ELSE Result(h, << create_packet(MSG_DATA, encrypt(h.encryption, Echo(d.pt), iv)) >>)

\* handle_keepalive that does not answer
handle_keepalive_Silent(h) == Result(h, <<>>)

handle_keepalive(h) == Result(h, << create_packet(MSG_KEEPALIVE, EmptyPayload) >>)

\* handle_disconnect only logging the request
handle_disconnect_Ignore(h) == Result(h, <<>>)

handle_disconnect(h) == Result([h EXCEPT !.running = FALSE], <<>>)

\* handle_message ending the session on a type it does not know
handle_message_Fatal(h, msg_type, payload, dict, iv) ==
    CASE msg_type = MSG_HANDSHAKE -> handle_handshake(h, payload)
      [] msg_type = MSG_AUTH -> handle_auth(h, payload, dict)
      [] msg_type = MSG_DATA -> handle_data(h, payload, iv)
      [] msg_type = MSG_KEEPALIVE -> handle_keepalive(h)
      [] msg_type = MSG_DISCONNECT -> handle_disconnect(h)
      [] OTHER -> Result([h EXCEPT !.running = FALSE], <<>>)

handle_message(h, msg_type, payload, dict, iv) ==
    CASE msg_type = MSG_HANDSHAKE -> handle_handshake(h, payload)
      [] msg_type = MSG_AUTH -> handle_auth(h, payload, dict)
      [] msg_type = MSG_DATA -> handle_data(h, payload, iv)
      [] msg_type = MSG_KEEPALIVE -> handle_keepalive(h)
      [] msg_type = MSG_DISCONNECT -> handle_disconnect(h)
      [] OTHER -> Result(h, <<>>)                       \* unknown type: logged

\* leaving the receive loop: finally: self.socket.close()
Closed(h) == [h EXCEPT !.st = "closed"]

\* handle going on with its loop after bytes that do not parse
handle_KeepOpen(h, data, dict, iv) ==
    IF data.avail = "none" THEN Result(Closed(h), <<>>)
    ELSE LET p == parse_packet(data) IN
         IF ~p.ok THEN Result(h, <<>>)
         ELSE LET r == handle_message(h, p.type, p.payload, dict, iv) IN
              IF r.h.running THEN r ELSE Result(Closed(r.h), r.sent)

\* one turn of the loop of handle() on the bytes recv returned
handle(h, data, dict, iv) ==
    IF data.avail = "none" THEN Result(Closed(h), <<>>)       \* if not data: break
    ELSE LET p == parse_packet(data) IN
         IF ~p.ok THEN Result(Closed(h), <<>>)                \* except: log, break
         ELSE LET r == handle_message(h, p.type, p.payload, dict, iv) IN
              IF r.h.running THEN r ELSE Result(Closed(r.h), r.sent)

\* the first live slot after pos, or 0 when the entries are exhausted
NextSlot(dict, pos) ==
    IF \E i \in LiveSlots(dict) : i > pos
    THEN CHOOSE i \in LiveSlots(dict) : i > pos /\ \A j \in LiveSlots(dict) : j > pos => i <= j
    ELSE 0

\* TryEntry without the comparison of the decrypted username
TryEntry_NoUserCheck(h, entry) ==
    LET temp_encryption == derive_key(entry.password, h.client_salt)
        d == decrypt(temp_encryption, h.it.payload)
    IN  d.ok /\ Decodable(d.pt) /\ d.pt.fmt = "json"

\* whether the entry's password opens the payload and names the entry's user
TryEntry(h, entry) ==
    LET temp_encryption == derive_key(entry.password, h.client_salt)
        d == decrypt(temp_encryption, h.it.payload)
    IN  d.ok /\ Decodable(d.pt) /\ UsernameIs(d.pt, entry.name)

\* Authenticated leaving self.encryption unset
Authenticated_NoKey(h, entry) ==
    [h EXCEPT !.username = entry.name,
              !.authenticated = TRUE,
              !.pc = "recv", !.it = NoIter]

\* the success branch of the loop body
Authenticated(h, entry) ==
    [h EXCEPT !.username = entry.name,
              !.encryption = derive_key(entry.password, h.client_salt),
              !.authenticated = TRUE,
              !.pc = "recv", !.it = NoIter]

\* AuthFailed dropping the connection after a failed attempt
AuthFailed_Close(h) == [h EXCEPT !.pc = "recv", !.it = NoIter, !.st = "closed", !.running = FALSE]

\* AuthFailed taking the session's authentication away
AuthFailed_Revoke(h) == [h EXCEPT !.pc = "recv", !.it = NoIter, !.authenticated = FALSE]

\* the loop is left without a match, or by an exception
AuthFailed(h) == [h EXCEPT !.pc = "recv", !.it = NoIter]

\* auth_scan going on to the failure reply after a match (no return after
\* _send_auth_success)
auth_scan_ReplyTwice(h, dict) ==
    LET i == NextSlot(dict, h.it.pos) IN
    IF h.it.used # Used(dict)
    THEN Result(AuthFailed(h), << send_auth_failure >>)
    ELSE IF i = 0
    THEN Result(AuthFailed(h), << send_auth_failure >>)
    ELSE IF h.it.left = 0
    THEN Result(AuthFailed(h), << send_auth_failure >>)
    ELSE IF TryEntry(h, dict[i])
    THEN Result(Authenticated(h, dict[i]), << send_auth_success, send_auth_failure >>)
    ELSE Result([h EXCEPT !.it.pos = i, !.it.left = @ - 1], <<>>)

\* one turn of the loop of _handle_auth: the iterator's next(), then the body
auth_scan(h, dict) ==
    LET i == NextSlot(dict, h.it.pos) IN
    IF h.it.used # Used(dict)
    THEN Result(AuthFailed(h), << send_auth_failure >>)   \* RuntimeError: dict changed size
    ELSE IF i = 0
    THEN Result(AuthFailed(h), << send_auth_failure >>)   \* no entry matched
    ELSE IF h.it.left = 0
    THEN Result(AuthFailed(h), << send_auth_failure >>)   \* RuntimeError: dict keys changed
    ELSE IF TryEntry(h, dict[i])
    THEN Result(Authenticated(h, dict[i]), << send_auth_success >>)
    ELSE Result([h EXCEPT !.it.pos = i, !.it.left = @ - 1], <<>>)

----------------------------------------------------------------------------
(* The peers: what a client may write on its connection.  A client builds  *)
(* its frames with the same create_packet and encrypt as the server; the   *)
(* nonce of its own blobs is its to choose, and "n0" stands for it.        *)

\* the passwords the peer of connection 1 holds; no user ever has "wrong"
KnownPasswords == {"admin123", "x", "wrong"}

ClientBlob(pw, s, pt) == encrypt(derive_key(pw, s), pt, "n0")

HandshakePayloads ==
    {HandshakeRequest(VERSION, "s1"), HandshakeRequest(VERSION, "s2"),
     HandshakeRequest(VERSION + 1, "s1"), HandshakeRequest(VERSION, BadBase64),
     RawPayload(40)}

AuthPayloads ==
    {ClientBlob(pw, "s1", AuthData(u)) : pw \in KnownPasswords, u \in {"admin", "bob"}}
        \cup {ClientBlob(pw, "s1", Text("hello")) : pw \in KnownPasswords \ {"x"}}
        \cup {RawPayload(5)}

DataPayloads ==
    {ClientBlob(pw, "s1", pt) : pw \in KnownPasswords, pt \in {Text("hello"), Binary}}
        \cup {RawPayload(5), RawPayload(40)}

\* type 9 is no message type of the protocol
ControlTypes == {MSG_KEEPALIVE, MSG_DISCONNECT, MSG_AUTH_SUCCESS, 9}

\* the frames a peer holding KnownPasswords builds
OwnFrames ==
    {create_packet(MSG_HANDSHAKE, p) : p \in HandshakePayloads}
        \cup {create_packet(MSG_AUTH, p) : p \in AuthPayloads}
        \cup {create_packet(MSG_DATA, p) : p \in DataPayloads}
        \cup {create_packet(t, EmptyPayload) : t \in ControlTypes}

\* the frames VPNClient("admin", "admin123") with salt s1 writes
ClientFrames ==
    {create_packet(MSG_HANDSHAKE, HandshakeRequest(VERSION, "s1")),
     create_packet(MSG_AUTH, ClientBlob("admin123", "s1", AuthData("admin"))),
     create_packet(MSG_DATA, ClientBlob("admin123", "s1", Text("hello"))),
     create_packet(MSG_KEEPALIVE, EmptyPayload),
     create_packet(MSG_DISCONNECT, EmptyPayload)}

\* the frames of a peer that holds no directory password: its own, with its
\* own salt s2, and those it recorded on the legitimate connection
AttackerFrames ==
    {create_packet(MSG_HANDSHAKE, HandshakeRequest(VERSION, "s2")),
     create_packet(MSG_AUTH, ClientBlob("wrong", "s2", AuthData("admin"))),
     create_packet(MSG_DATA, ClientBlob("wrong", "s2", Text("hello")))}
        \cup recorded

AnyFrame == create_packet(MSG_KEEPALIVE, EmptyPayload)
NoChunk == Chunk("none", AnyFrame)

\* reads that end the connection: no bytes, a cut frame, a foreign header
BrokenChunks ==
    {Chunk(a, AnyFrame) : a \in {"none", "short", "partial"}}
        \cup {Chunk("exact", [AnyFrame EXCEPT !.magic = "XXXX"]),
              Chunk("exact", [AnyFrame EXCEPT !.version = VERSION + 1])}

\* what recv may return on the connection of such a peer
PeerChunks ==
    {Chunk("exact", f) : f \in OwnFrames}
        \cup {Chunk("more", create_packet(t, EmptyPayload)) : t \in {MSG_KEEPALIVE, MSG_DISCONNECT}}
        \cup BrokenChunks

\* what recv may return with a client on connection 1 and the attacker on 2
TwoChunks(c) ==
    {Chunk("exact", f) : f \in IF c = Legit THEN ClientFrames ELSE AttackerFrames}
        \cup BrokenChunks

\* os.urandom is drawn where encrypt is called: on a Data message
NoncesFor(data) == IF data.frame.type = MSG_DATA THEN Nonces ELSE {"n1"}

----------------------------------------------------------------------------
(* VPNClient (vpn_client.py) *)

\* the connections the client makes, in this order
ClientConns == {Legit}
\* the salt os.urandom gives the client's VPNEncryption
ClientSalt == "s1"
NoFrame == [magic |-> "", version |-> 0, type |-> 0, payload |-> EmptyPayload]

\* VPNClient.__init__; conn is the connection its socket is on (0: no
\* socket yet), hung_up the connections whose socket it has closed, pc where
\* connect() stands, workers the keepalive threads alive, welcomed the
\* connections on which _authenticate has read AuthSuccess
NewClient(username, password) ==
    [username |-> username, password |-> password,
     socket |-> "none", conn |-> 0, hung_up |-> {},
     encryption |-> NoEncryption, connected |-> FALSE, running |-> FALSE,
     pc |-> "idle", workers |-> 0, welcomed |-> {}]

\* what a call returned: "True", "False", "bytes" (with the bytes), "raise"
\* for an exception, "" for nothing
Ret(kind, bytes) == [kind |-> kind, bytes |-> bytes]
Returned(kind) == Ret(kind, Text(""))

\* a call on the client: what it read, what it returned and the frames it
\* wrote
ClientEvent(op, read, ret, sent) == [op |-> op, read |-> read, ret |-> ret, sent |-> sent]

\* the last step was not a call on the client
NoClientEvent == ClientEvent("", NoFrame, Returned(""), <<>>)

\* socket.send on the client's current socket
CanSend(cl) ==
    /\ cl.socket = "open" /\ cl.conn \in Conns
    /\ clients[cl.conn].st # "free"

\* parse_packet on the bytes of one whole frame a recv of the client returned
Reply(frame) == parse_packet(Chunk("exact", frame))

\* what receive_data returns for the frame it read: the decrypted payload
\* of a Data message, empty bytes for anything else; "raise" when
\* parse_packet or decrypt fails
ReceiveResult(cl, frame) ==
    IF ~Reply(frame).ok THEN Returned("raise")
    ELSE IF frame.type = MSG_DATA
    THEN LET d == decrypt(cl.encryption, frame.payload) IN
         IF d.ok THEN Ret("bytes", d.pt) ELSE Returned("raise")
    ELSE Ret("bytes", Text(""))

\* no VPNEncryption object has been built on its own
NoEngine == [password |-> "", salt |-> NoSalt, key |-> NoEncryption, drawn |-> {}, out |-> <<>>]
\* no call has been made on the codec or the engine
NoCall == [op |-> ""]

----------------------------------------------------------------------------
(* The state machine *)

\* the step just taken: the connection, the operation, the bytes read, the
\* handler's fields before the step and the packets the step wrote
Event(c, op, data, pre, sent) ==
    [conn |-> c, op |-> op, data |-> data, pre |-> pre, sent |-> sent]
\* a step of the server itself, outside any handler
ServerEvent(op) == Event(0, op, NoChunk, FreeSlot, <<>>)
\* the last step was a call on the client, not a step of the server
NoServerEvent == ServerEvent("")
\* a call of add_user or remove_user, with its arguments and the directory
\* it was called on
DirectoryEvent(op, u, p, before) ==
    [conn |-> 0, op |-> op, data |-> NoChunk, pre |-> FreeSlot, sent |-> <<>>,
     username |-> u, password |-> p, before |-> before]

Init ==
    /\ users = DefaultUsers
    /\ server_running = "new"
    /\ clients = [c \in Conns |-> FreeSlot]
    /\ recorded = {}
    /\ handshaken = {}
    /\ ev = ServerEvent("init")
    /\ client = NewClient("admin", "admin123")
    /\ c2s = [c \in Conns |-> <<>>]
    /\ s2c = [c \in Conns |-> <<>>]
    /\ cev = ClientEvent("init", NoFrame, Returned(""), <<>>)
    /\ engine = NoEngine
    /\ call = NoCall
    /\ other = NoEngine

\* VPNServer.start up to the accept loop
Start ==
    /\ server_running = "new"
    /\ server_running' = "running"
    /\ ev' = ServerEvent("start")
    /\ UNCHANGED <<lvars, users, clients, recorded, handshaken>>
    /\ UNCHANGED cvars

\* VPNServer.stop
Stop ==
    /\ server_running = "running"
    /\ server_running' = "stopped"
    /\ ev' = ServerEvent("stop")
    /\ UNCHANGED <<lvars, users, clients, recorded, handshaken>>
    /\ UNCHANGED cvars

\* one turn of the accept loop: a handler and its thread for the connection
Accept(c) ==
    /\ server_running = "running"
    /\ clients[c].st = "free"
    /\ clients' = [clients EXCEPT ![c] = NewHandler]
    /\ ev' = Event(c, "accept", NoChunk, FreeSlot, <<>>)
    /\ UNCHANGED <<lvars, users, server_running, recorded, handshaken>>
    /\ UNCHANGED cvars

\* VPNServer.start: the accept() that stop() found blocked returns the next
\* connection (close() on the listening socket does not wake a blocked
\* accept on Linux); the handler and its thread are created as for any other
\* connection, then "while self.running" ends the loop and start() returns
AcceptAfterStop(c) ==
    /\ server_running = "stopped"
    /\ clients[c].st = "free"
    /\ clients' = [clients EXCEPT ![c] = NewHandler]
    /\ server_running' = "returned"
    /\ ev' = Event(c, "accept", NoChunk, FreeSlot, <<>>)
    /\ UNCHANGED <<lvars, users, recorded, handshaken>>
    /\ UNCHANGED cvars

\* VPNServer.start: the accept() that stop() found blocked raises
\* socket.error (platforms where close() wakes it); the loop breaks and
\* start() returns
AcceptRaises ==
    /\ server_running = "stopped"
    /\ server_running' = "returned"
    /\ ev' = ServerEvent("accept_error")
    /\ UNCHANGED <<lvars, users, clients, recorded, handshaken>>
    /\ UNCHANGED cvars

AddUserInputs == {<<"bob", "x">>}
RemoveUserInputs == {"admin", "bob"}

\* VPNServer.add_user
AddUser(u, p) ==
    /\ HasUser(users, u) \/ Len(users) < MaxSlots
    /\ users' = add_user(users, u, p)
    /\ ev' = DirectoryEvent("add_user", u, p, users)
    /\ UNCHANGED <<lvars, server_running, clients, recorded, handshaken>>
    /\ UNCHANGED cvars

\* VPNServer.remove_user
RemoveUser(u) ==
    /\ users' = remove_user(users, u)
    /\ ev' = DirectoryEvent("remove_user", u, "", users)
    /\ UNCHANGED <<lvars, server_running, clients, recorded, handshaken>>
    /\ UNCHANGED cvars

\* the eavesdropper keeps the frames of the legitimate connection that the
\* server accepted
Record(c, frame, sent) ==
    IF c = Legit /\ sent # <<>>
          /\ sent[1].type \in {MSG_HANDSHAKE, MSG_AUTH_SUCCESS}
    THEN recorded \cup {frame}
    ELSE recorded

\* HandleFrom with the session fields kept on the class, not the instance:
\* every open handler sees what one of them assigns
HandleFrom_SharedFields(c, chunks) ==
    /\ clients[c].st = "open"
    /\ clients[c].pc = "recv"
    /\ \E data \in chunks :
         \E iv \in NoncesFor(data) :
            LET r == handle(clients[c], data, users, iv) IN
            /\ clients' = [d \in Conns |->
                             IF d = c THEN r.h
                             ELSE IF clients[d].st # "open" THEN clients[d]
                             ELSE [clients[d] EXCEPT !.authenticated = r.h.authenticated,
                                                     !.username = r.h.username,
                                                     !.encryption = r.h.encryption,
                                                     !.client_salt = r.h.client_salt]]
            /\ recorded' = Record(c, data.frame, r.sent)
            /\ handshaken' = IF r.sent # <<>> /\ r.sent[1].type = MSG_HANDSHAKE
                             THEN handshaken \cup {c} ELSE handshaken
            /\ ev' = Event(c, "handle", data, clients[c], r.sent)
    /\ UNCHANGED <<lvars, users, server_running>>

\* ClientHandler.handle: recv, parse_packet, _handle_message
HandleFrom(c, chunks) ==
    /\ clients[c].st = "open"
    /\ clients[c].pc = "recv"
    /\ \E data \in chunks :
         \E iv \in NoncesFor(data) :
            LET r == handle(clients[c], data, users, iv) IN
            /\ clients' = [clients EXCEPT ![c] = r.h]
            /\ recorded' = Record(c, data.frame, r.sent)
            /\ handshaken' = IF r.sent # <<>> /\ r.sent[1].type = MSG_HANDSHAKE
                             THEN handshaken \cup {c} ELSE handshaken
            /\ ev' = Event(c, "handle", data, clients[c], r.sent)
    /\ UNCHANGED <<lvars, users, server_running>>

\* the handler of a connection whose peer may write anything
Handle(c) == HandleFrom(c, PeerChunks) /\ UNCHANGED cvars

\* the handlers of a client's connection and of the attacker's
HandleTwo(c) == HandleFrom(c, TwoChunks(c)) /\ UNCHANGED cvars

\* ClientHandler._handle_auth: one turn of the loop over the users
ScanStep(c) ==
    /\ clients[c].st = "open"
    /\ clients[c].pc = "scan"
    /\ LET r == auth_scan(clients[c], users) IN
       /\ clients' = [clients EXCEPT ![c] = r.h]
       /\ recorded' = Record(c, create_packet(MSG_AUTH, clients[c].it.payload), r.sent)
       /\ ev' = Event(c, "scan", NoChunk, clients[c], r.sent)
    /\ UNCHANGED <<lvars, users, server_running, handshaken>>

AuthScan(c) == ScanStep(c) /\ UNCHANGED cvars

\* one session with an arbitrary peer, the directory changing under it
Next ==
    \/ Start
    \/ Stop
    \/ Accept(Legit)
    \/ \E in \in AddUserInputs : AddUser(in[1], in[2])
    \/ \E u \in RemoveUserInputs : RemoveUser(u)
    \/ Handle(Legit)
    \/ AuthScan(Legit)

Spec == Init /\ [][Next]_vars

\* two concurrent sessions: a client and an attacker that recorded it
NextTwo ==
    \/ Start
    \/ Stop
    \/ \E c \in Conns : Accept(c)
    \/ \E c \in Conns : AcceptAfterStop(c)
    \/ AcceptRaises
    \/ \E c \in Conns : HandleTwo(c)
    \/ \E c \in Conns : AuthScan(c)

SpecTwo == Init /\ [][NextTwo]_vars

\* the directory alone, under the calls the GUI and the tests make
DirAddInputs == {<<"bob", "x">>, <<"bob", "y">>, <<"admin", "x">>, <<"testuser", "testpass">>}
DirRemoveInputs == {"admin", "user1", "bob", "testuser"}

NextDir ==
    \/ Start
    \/ Stop
    \/ \E in \in DirAddInputs : AddUser(in[1], in[2])
    \/ \E u \in DirRemoveInputs : RemoveUser(u)

SpecDir == Init /\ [][NextDir]_vars

\* one session of a client that holds admin's first password, while admin
\* is removed, added again and given another password
RevokeAddInputs == {<<"admin", "x">>, <<"admin", "admin123">>}

NextRevoke ==
    \/ Start
    \/ Accept(Legit)
    \/ \E in \in RevokeAddInputs : AddUser(in[1], in[2])
    \/ RemoveUser("admin")
    \/ HandleTwo(Legit)
    \/ AuthScan(Legit)

SpecRevoke == Init /\ [][NextRevoke]_vars

\* sessions whose peers write, between the messages of a client, well
\* framed messages of types _handle_message has no branch for: the two
\* replies of the server and three values the protocol does not define,
\* with an empty payload, with bytes and with a blob the session's key opens
OtherTypes == {0, MSG_AUTH_SUCCESS, MSG_AUTH_FAILURE, 9, 255}

OtherPayloads ==
    {EmptyPayload, RawPayload(40), ClientBlob("admin123", "s1", Text("hello"))}

TypeChunks ==
    {Chunk("exact", f) : f \in ClientFrames}
        \cup {Chunk("exact", create_packet(t, p)) : t \in OtherTypes, p \in OtherPayloads}
        \cup {NoChunk}

HandleTypes(c) == HandleFrom(c, TypeChunks) /\ UNCHANGED cvars

NextTypes ==
    \/ Start
    \/ \E c \in Conns : Accept(c)
    \/ \E c \in Conns : HandleTypes(c)
    \/ \E c \in Conns : AuthScan(c)

SpecTypes == Init /\ [][NextTypes]_vars

----------------------------------------------------------------------------
(* A VPNClient and the server's handlers of its connections *)

\* VPNClient.connect up to the Handshake it sends.  The server's accept loop
\* gives the connection a handler; with no server listening socket.connect
\* raises and connect returns False.
ConnectOn(conns) ==
    /\ client.pc = "idle"
    /\ client.conn + 1 \in conns
    /\ LET c == client.conn + 1
           key == derive_key(client.password, ClientSalt)
           hs == create_packet(MSG_HANDSHAKE, HandshakeRequest(VERSION, ClientSalt))
       IN  IF server_running = "running"
           THEN /\ clients' = [clients EXCEPT ![c] = NewHandler]
                /\ ev' = Event(c, "accept", NoChunk, FreeSlot, <<>>)
                /\ client' = [client EXCEPT !.socket = "open", !.conn = c,
                                            !.encryption = key, !.pc = "hs_wait"]
                /\ c2s' = [c2s EXCEPT ![c] = << hs >>]
                /\ cev' = ClientEvent("connect", NoFrame, Returned(""), << hs >>)
           ELSE /\ client' = [client EXCEPT !.socket = "refused"]
                /\ cev' = ClientEvent("connect", NoFrame, Returned("False"), <<>>)
                /\ ev' = NoServerEvent
                /\ UNCHANGED <<clients, c2s>>
    /\ UNCHANGED <<lvars, users, server_running, recorded, handshaken, s2c>>

\* the one connect() of a client object that is used once
Connect == ConnectOn(ClientConns)

\* VPNClient._handshake from its recv on, then _authenticate up to its send.
\* A recv of the client returns the next frame the server wrote; with
\* nothing there it returns no bytes (the server closed) or times out.
HandshakeReply ==
    /\ client.pc = "hs_wait"
    /\ LET c == client.conn
           auth == create_packet(MSG_AUTH,
                      encrypt(client.encryption, AuthData(client.username), "n0"))
       IN  IF /\ s2c[c] # <<>>
              /\ Reply(Head(s2c[c])).ok
              /\ Reply(Head(s2c[c])).type = MSG_HANDSHAKE
           THEN /\ client' = [client EXCEPT !.pc = "auth_wait"]
                /\ s2c' = [s2c EXCEPT ![c] = Tail(@)]
                /\ c2s' = [c2s EXCEPT ![c] = Append(@, auth)]
                /\ cev' = ClientEvent("handshake", Head(s2c[c]), Returned(""), << auth >>)
           ELSE \* another message, bytes that do not parse, no bytes, or
                \* socket.timeout: return False
                /\ client' = [client EXCEPT !.pc = "idle"]
                /\ s2c' = [s2c EXCEPT ![c] = IF @ = <<>> THEN @ ELSE Tail(@)]
                /\ cev' = ClientEvent("connect",
                              IF s2c[c] = <<>> THEN NoFrame ELSE Head(s2c[c]),
                              Returned("False"), <<>>)
                /\ UNCHANGED c2s
    /\ Len(c2s[client.conn]) < MaxWire
    /\ ev' = NoServerEvent
    /\ UNCHANGED <<lvars, users, server_running, clients, recorded, handshaken>>

\* AuthReply taking every reply that parses for AuthSuccess
AuthReply_AnyReply ==
    /\ client.pc = "auth_wait"
    /\ LET c == client.conn IN
       IF s2c[c] # <<>> /\ Reply(Head(s2c[c])).ok
       THEN /\ client' = [client EXCEPT !.pc = "idle", !.connected = TRUE,
                                        !.running = TRUE, !.workers = @ + 1,
                                        !.welcomed = @ \cup {c}]
            /\ s2c' = [s2c EXCEPT ![c] = Tail(@)]
            /\ cev' = ClientEvent("connect", Head(s2c[c]), Returned("True"), <<>>)
       ELSE /\ client' = [client EXCEPT !.pc = "idle"]
            /\ s2c' = [s2c EXCEPT ![c] = IF @ = <<>> THEN @ ELSE Tail(@)]
            /\ cev' = ClientEvent("connect",
                          IF s2c[c] = <<>> THEN NoFrame ELSE Head(s2c[c]),
                          Returned("False"), <<>>)
    /\ ev' = NoServerEvent
    /\ UNCHANGED <<lvars, users, server_running, clients, recorded, handshaken, c2s>>

\* VPNClient._authenticate from its recv on, then the end of connect
AuthReply ==
    /\ client.pc = "auth_wait"
    /\ LET c == client.conn IN
       IF /\ s2c[c] # <<>>
          /\ Reply(Head(s2c[c])).ok
          /\ Reply(Head(s2c[c])).type = MSG_AUTH_SUCCESS
       THEN /\ client' = [client EXCEPT !.pc = "idle", !.connected = TRUE,
                                        !.running = TRUE, !.workers = @ + 1,
                                        !.welcomed = @ \cup {c}]
            /\ s2c' = [s2c EXCEPT ![c] = Tail(@)]
            /\ cev' = ClientEvent("connect", Head(s2c[c]), Returned("True"), <<>>)
       ELSE /\ client' = [client EXCEPT !.pc = "idle"]
            /\ s2c' = [s2c EXCEPT ![c] = IF @ = <<>> THEN @ ELSE Tail(@)]
            /\ cev' = ClientEvent("connect",
                          IF s2c[c] = <<>> THEN NoFrame ELSE Head(s2c[c]),
                          Returned("False"), <<>>)
    /\ ev' = NoServerEvent
    /\ UNCHANGED <<lvars, users, server_running, clients, recorded, handshaken, c2s>>

\* VPNClient._keepalive_worker: one turn of the loop of one thread, after
\* its sleep
KeepaliveTick ==
    /\ client.workers > 0
    /\ LET ka == create_packet(MSG_KEEPALIVE, EmptyPayload) IN
       IF client.running /\ CanSend(client)
       THEN /\ Len(c2s[client.conn]) < MaxWire
            /\ c2s' = [c2s EXCEPT ![client.conn] = Append(@, ka)]
            /\ cev' = ClientEvent("keepalive", NoFrame, Returned(""), << ka >>)
            /\ UNCHANGED client
       ELSE \* not running, or send raised: the thread ends
            /\ client' = [client EXCEPT !.workers = @ - 1]
            /\ cev' = ClientEvent("keepalive", NoFrame, Returned(""), <<>>)
            /\ UNCHANGED c2s
    /\ ev' = NoServerEvent
    /\ UNCHANGED <<lvars, users, server_running, clients, recorded, handshaken, s2c>>

ClientPlaintexts == {Text("hello"), Binary}

\* send_data without its test of self.connected
SendData_NoCheck(M) ==
    /\ client.pc = "idle"
    /\ IF ~CanSend(client)
       THEN /\ cev' = ClientEvent("send_data", NoFrame, Returned("raise"), <<>>)
            /\ UNCHANGED c2s
       ELSE LET d == create_packet(MSG_DATA, encrypt(client.encryption, M, "n0")) IN
            /\ Len(c2s[client.conn]) < MaxWire
            /\ c2s' = [c2s EXCEPT ![client.conn] = Append(@, d)]
            /\ cev' = ClientEvent("send_data", NoFrame, Returned(""), << d >>)
    /\ ev' = NoServerEvent
    /\ UNCHANGED <<lvars, users, server_running, clients, recorded, handshaken, client, s2c>>

\* VPNClient.send_data
SendData(M) ==
    /\ client.pc = "idle"
    /\ IF ~client.connected \/ ~CanSend(client)
       THEN /\ cev' = ClientEvent("send_data", NoFrame, Returned("raise"), <<>>)
            /\ UNCHANGED c2s
       ELSE LET d == create_packet(MSG_DATA, encrypt(client.encryption, M, "n0")) IN
            /\ Len(c2s[client.conn]) < MaxWire
            /\ c2s' = [c2s EXCEPT ![client.conn] = Append(@, d)]
            /\ cev' = ClientEvent("send_data", NoFrame, Returned(""), << d >>)
    /\ ev' = NoServerEvent
    /\ UNCHANGED <<lvars, users, server_running, clients, recorded, handshaken, client, s2c>>

\* VPNClient.receive_data; recv(4096) returns k of the frames that have
\* arrived and parse_packet reads the first of them
ReceiveData ==
    /\ client.pc = "idle"
    /\ IF ~client.connected
       THEN /\ cev' = ClientEvent("receive_data", NoFrame, Returned("raise"), <<>>)
            /\ UNCHANGED s2c
       ELSE LET c == client.conn IN
            IF client.socket # "open" \/ s2c[c] = <<>>
            THEN \* closed socket, no bytes, or socket.timeout: raise
                 /\ cev' = ClientEvent("receive_data", NoFrame, Returned("raise"), <<>>)
                 /\ UNCHANGED s2c
            ELSE \E k \in 1..Len(s2c[c]) :
                 /\ s2c' = [s2c EXCEPT ![c] = SubSeq(@, k + 1, Len(@))]
                 /\ cev' = ClientEvent("receive_data", Head(s2c[c]),
                                       ReceiveResult(client, Head(s2c[c])), <<>>)
    /\ ev' = NoServerEvent
    /\ UNCHANGED <<lvars, users, server_running, clients, recorded, handshaken, client, c2s>>

\* disconnect given up when its send raises: the flags and the socket are
\* left as they were
Disconnect_SendFirst ==
    /\ client.pc = "idle"
    /\ LET dc == create_packet(MSG_DISCONNECT, EmptyPayload)
           sends == client.connected /\ CanSend(client) /\ Len(c2s[client.conn]) < MaxWire
           raised == client.connected /\ ~CanSend(client)
       IN  /\ client.connected /\ CanSend(client) => Len(c2s[client.conn]) < MaxWire
           /\ c2s' = IF sends THEN [c2s EXCEPT ![client.conn] = Append(@, dc)] ELSE c2s
           /\ cev' = ClientEvent("disconnect", NoFrame, Returned(IF raised THEN "raise" ELSE ""),
                                 IF sends THEN << dc >> ELSE <<>>)
           /\ client' = IF raised THEN client
                        ELSE [client EXCEPT
                                !.running = FALSE, !.connected = FALSE,
                                !.socket = IF @ = "none" THEN @ ELSE "closed",
                                !.hung_up = IF client.conn \in Conns /\ client.socket = "open"
                                            THEN @ \cup {client.conn} ELSE @]
    /\ ev' = NoServerEvent
    /\ UNCHANGED <<lvars, users, server_running, clients, recorded, handshaken, s2c>>

\* disconnect writing its message whatever self.connected says
Disconnect_AlwaysSends ==
    /\ client.pc = "idle"
    /\ LET dc == create_packet(MSG_DISCONNECT, EmptyPayload)
           sends == CanSend(client) /\ Len(c2s[client.conn]) < MaxWire
       IN  /\ CanSend(client) => Len(c2s[client.conn]) < MaxWire
           /\ c2s' = IF sends THEN [c2s EXCEPT ![client.conn] = Append(@, dc)] ELSE c2s
           /\ cev' = ClientEvent("disconnect", NoFrame, Returned(""), IF sends THEN << dc >> ELSE <<>>)
           /\ client' = [client EXCEPT
                  !.running = FALSE, !.connected = FALSE,
                  !.socket = IF @ = "none" THEN @ ELSE "closed",
                  !.hung_up = IF client.conn \in Conns /\ client.socket = "open"
                              THEN @ \cup {client.conn} ELSE @]
    /\ ev' = NoServerEvent
    /\ UNCHANGED <<lvars, users, server_running, clients, recorded, handshaken, s2c>>

\* VPNClient.disconnect
Disconnect ==
    /\ client.pc = "idle"
    /\ LET dc == create_packet(MSG_DISCONNECT, EmptyPayload)
           sends == client.connected /\ CanSend(client) /\ Len(c2s[client.conn]) < MaxWire
       IN  /\ client.connected /\ CanSend(client) => Len(c2s[client.conn]) < MaxWire
           /\ c2s' = IF sends THEN [c2s EXCEPT ![client.conn] = Append(@, dc)] ELSE c2s
           /\ cev' = ClientEvent("disconnect", NoFrame, Returned(""), IF sends THEN << dc >> ELSE <<>>)
           /\ client' = [client EXCEPT
                  !.running = FALSE, !.connected = FALSE,
                  !.socket = IF @ = "none" THEN @ ELSE "closed",
                  !.hung_up = IF client.conn \in Conns /\ client.socket = "open"
                              THEN @ \cup {client.conn} ELSE @]
    /\ ev' = NoServerEvent
    /\ UNCHANGED <<lvars, users, server_running, clients, recorded, handshaken, s2c>>

\* the handler of one of the client's connections reads the next frame the
\* client wrote, or no bytes once the client has closed its socket
Serve(c) ==
    /\ c <= client.conn
    /\ Len(s2c[c]) < MaxWire
    /\ \/ /\ c2s[c] # <<>>
          /\ HandleFrom(c, {Chunk("exact", Head(c2s[c]))})
          /\ c2s' = [c2s EXCEPT ![c] = Tail(@)]
       \/ /\ c2s[c] = <<>> /\ c \in client.hung_up
          /\ HandleFrom(c, {NoChunk})
          /\ UNCHANGED c2s
    /\ s2c' = [s2c EXCEPT ![c] = @ \o ev'.sent]
    /\ cev' = NoClientEvent
    /\ UNCHANGED client

\* the loop over the users, for an Auth message of the client
ServeScan(c) ==
    /\ c <= client.conn
    /\ ScanStep(c)
    /\ s2c' = [s2c EXCEPT ![c] = @ \o ev'.sent]
    /\ cev' = NoClientEvent
    /\ UNCHANGED <<client, c2s>>

\* a client that holds admin's password, or a wrong one
InitClient ==
    /\ users = DefaultUsers
    /\ server_running = "new"
    /\ clients = [c \in Conns |-> FreeSlot]
    /\ recorded = {}
    /\ handshaken = {}
    /\ ev = ServerEvent("init")
    /\ \E pw \in {"admin123", "wrong"} : client = NewClient("admin", pw)
    /\ c2s = [c \in Conns |-> <<>>]
    /\ s2c = [c \in Conns |-> <<>>]
    /\ cev = ClientEvent("init", NoFrame, Returned(""), <<>>)
    /\ engine = NoEngine
    /\ call = NoCall
    /\ other = NoEngine

NextClient ==
    \/ Start
    \/ Connect
    \/ HandshakeReply
    \/ AuthReply
    \/ KeepaliveTick
    \/ \E M \in ClientPlaintexts : SendData(M)
    \/ ReceiveData
    \/ Disconnect
    \/ \E c \in ClientConns : Serve(c)
    \/ \E c \in ClientConns : ServeScan(c)

SpecClient == InitClient /\ [][NextClient]_vars

----------------------------------------------------------------------------
(* VPNClient.run_interactive: the caller sends one message and reads the    *)
(* reply to it, turn after turn, while the keepalive thread runs            *)

\* one turn of the loop of run_interactive: self.send_data(message.encode()).
\* (A send that raises ends the loop; SendData has that case.)
AskEcho(M) ==
    /\ client.pc = "idle"
    /\ client.connected /\ client.running
    /\ CanSend(client)
    /\ Len(c2s[client.conn]) < MaxWire
    /\ LET d == create_packet(MSG_DATA, encrypt(client.encryption, M, "n0")) IN
       /\ c2s' = [c2s EXCEPT ![client.conn] = Append(@, d)]
       /\ cev' = ClientEvent("send_data", NoFrame, Returned(""), << d >>)
    /\ client' = [client EXCEPT !.pc = "echo_wait"]
    /\ ev' = NoServerEvent
    /\ UNCHANGED <<lvars, users, server_running, clients, recorded, handshaken, s2c>>

\* the same turn: response = self.receive_data().  recv blocks until bytes
\* have arrived (a wait of more than the socket's timeout is left out); it
\* returns k of the frames that have arrived and parse_packet reads the
\* first of them
ReadEcho ==
    /\ client.pc = "echo_wait"
    /\ LET c == client.conn IN
       /\ s2c[c] # <<>>
       /\ \E k \in 1..Len(s2c[c]) :
             /\ s2c' = [s2c EXCEPT ![c] = SubSeq(@, k + 1, Len(@))]
             /\ cev' = ClientEvent("receive_data", Head(s2c[c]),
                                   ReceiveResult(client, Head(s2c[c])), <<>>)
    /\ client' = [client EXCEPT !.pc = "idle"]
    /\ ev' = NoServerEvent
    /\ UNCHANGED <<lvars, users, server_running, clients, recorded, handshaken, c2s>>

NextEcho ==
    \/ Start
    \/ Connect
    \/ HandshakeReply
    \/ AuthReply
    \/ KeepaliveTick
    \/ AskEcho(Text("hello"))
    \/ ReadEcho
    \/ Disconnect
    \/ \E c \in ClientConns : Serve(c)
    \/ \E c \in ClientConns : ServeScan(c)

SpecEcho == Init /\ [][NextEcho]_vars

----------------------------------------------------------------------------
(* A VPNClient under any sequence of calls, its peer answering anything *)

\* connect() on a client that is not connected: a fresh one, one whose
\* connect() failed, or one that was disconnected
Reconnect == ~client.connected /\ ConnectOn(Conns)

\* what the peer may write on the client's connection: the replies of the
\* protocol, in any order, and bytes with a foreign header
PeerReplies ==
    {create_packet(MSG_HANDSHAKE, HandshakeResponse),
     send_auth_success, send_auth_failure,
     create_packet(MSG_KEEPALIVE, EmptyPayload),
     [create_packet(MSG_HANDSHAKE, HandshakeResponse) EXCEPT !.magic = "XXXX"]}

\* the peer writes on the connection the client's socket is on, one reply
\* at a time
PeerWrite(f) ==
    /\ client.conn \in Conns /\ client.socket = "open"
    /\ s2c[client.conn] = <<>>
    /\ s2c' = [s2c EXCEPT ![client.conn] = Append(@, f)]
    /\ cev' = NoClientEvent
    /\ ev' = NoServerEvent
    /\ UNCHANGED <<lvars, users, server_running, clients, recorded, handshaken, client, c2s>>

\* the peer reads what the client wrote on a connection
PeerRead(c) ==
    /\ c2s[c] # <<>>
    /\ c2s' = [c2s EXCEPT ![c] = Tail(@)]
    /\ cev' = NoClientEvent
    /\ ev' = NoServerEvent
    /\ UNCHANGED <<lvars, users, server_running, clients, recorded, handshaken, client, s2c>>

NextCalls ==
    \/ Start
    \/ Reconnect
    \/ HandshakeReply
    \/ AuthReply
    \/ KeepaliveTick
    \/ SendData(Text("hello"))
    \/ ReceiveData
    \/ Disconnect
    \/ \E f \in PeerReplies : PeerWrite(f)
    \/ \E c \in Conns : PeerRead(c)

SpecCalls == Init /\ [][NextCalls]_vars

----------------------------------------------------------------------------
(* A VPNClient under any sequence of calls, connect() on a connected client *)
(* included, its peer answering anything                                    *)

\* connect() whenever it is called: it builds a new socket and leaves the
\* client's flags and its keepalive threads as they are
ConnectAgain == ConnectOn(Conns)

NextOrder ==
    \/ Start
    \/ ConnectAgain
    \/ HandshakeReply
    \/ AuthReply
    \/ KeepaliveTick
    \/ SendData(Text("hello"))
    \/ ReceiveData
    \/ Disconnect
    \/ \E f \in PeerReplies : PeerWrite(f)
    \/ \E c \in Conns : PeerRead(c)

SpecOrder == Init /\ [][NextOrder]_vars

----------------------------------------------------------------------------
(* VPNClient.disconnect, called any number of times, on a connection the   *)
(* peer may have reset                                                     *)

\* the peer resets the connection while the client is between two calls:
\* the client's socket object stays, and socket.send on it raises
PeerReset ==
    /\ client.pc = "idle"
    /\ client.socket = "open"
    /\ client' = [client EXCEPT !.socket = "reset"]
    /\ cev' = NoClientEvent
    /\ ev' = NoServerEvent
    /\ UNCHANGED <<lvars, users, server_running, clients, recorded, handshaken, c2s, s2c>>

NextHangup ==
    \/ Start
    \/ Connect
    \/ HandshakeReply
    \/ AuthReply
    \/ KeepaliveTick
    \/ Disconnect
    \/ \E f \in PeerReplies : PeerWrite(f)
    \/ \E c \in Conns : PeerRead(c)
    \/ PeerReset

SpecHangup == Init /\ [][NextHangup]_vars

----------------------------------------------------------------------------
(* A session to its end.  The peer of connection 1 writes messages on the   *)
(* stream and may close its end; each recv of the handler returns the next  *)
(* message alone, the next two at once, or no bytes when the stream is      *)
(* empty and the peer has closed.  The handler runs in a thread of its own, *)
(* so a recv that can return does return.                                   *)

\* what this peer writes: the messages of a client and one foreign header
EndFrames ==
    ClientFrames \cup {[create_packet(MSG_KEEPALIVE, EmptyPayload) EXCEPT !.magic = "XXXX"]}

\* the peer has closed its end of the connection
PeerClosed(c) == c \in client.hung_up

\* socket.send by the peer of an accepted connection
PeerSend(c, f) ==
    /\ clients[c].st # "free"
    /\ ~PeerClosed(c)
    /\ Len(c2s[c]) < MaxWire
    /\ c2s' = [c2s EXCEPT ![c] = Append(@, f)]
    /\ cev' = NoClientEvent
    /\ ev' = NoServerEvent
    /\ UNCHANGED <<lvars, users, server_running, clients, recorded, handshaken, client, s2c>>

\* socket.close by the peer
PeerClose(c) ==
    /\ clients[c].st # "free"
    /\ ~PeerClosed(c)
    /\ client' = [client EXCEPT !.hung_up = @ \cup {c}]
    /\ cev' = NoClientEvent
    /\ ev' = NoServerEvent
    /\ UNCHANGED <<lvars, users, server_running, clients, recorded, handshaken, c2s, s2c>>

\* one turn of the loop of handle(): recv(4096) returns the first message
\* of the stream, or the first with the one behind it (parse_packet then
\* takes the first and the other is gone with the buffer), or b'' at the
\* end of the stream
Recv(c) ==
    /\ \/ /\ c2s[c] # <<>>
          /\ HandleFrom(c, {Chunk("exact", Head(c2s[c]))})
          /\ c2s' = [c2s EXCEPT ![c] = Tail(@)]
       \/ /\ Len(c2s[c]) >= 2
          /\ HandleFrom(c, {Chunk("more", Head(c2s[c]))})
          /\ c2s' = [c2s EXCEPT ![c] = Tail(Tail(@))]
       \/ /\ c2s[c] = <<>> /\ PeerClosed(c)
          /\ HandleFrom(c, {NoChunk})
          /\ UNCHANGED c2s
    /\ cev' = NoClientEvent
    /\ UNCHANGED <<client, s2c>>

NextEnd ==
    \/ Start
    \/ Accept(Legit)
    \/ \E f \in EndFrames : PeerSend(Legit, f)
    \/ PeerClose(Legit)
    \/ Recv(Legit)
    \/ AuthScan(Legit)

\* the handler's thread is scheduled: a recv that can return and a loop over
\* the users that can go on are not put off for ever
SpecEnd ==
    /\ Init /\ [][NextEnd]_vars
    /\ WF_vars(Recv(Legit)) /\ WF_vars(AuthScan(Legit))

----------------------------------------------------------------------------
(* VPNProtocol on bytes.  The sessions above exchange frames, which stand  *)
(* for what create_packet returns; here a packet is the sequence of its    *)
(* bytes as struct.pack('!4sBBI', ...) lays them out, and parse_packet     *)
(* works on any sequence of bytes.                                         *)

\* the longest payload enumerated (one longer payload is added to them)
MaxPayload == 2

\* b'\xDE\xAD\xBE\xEF'
MagicOctets == <<222, 173, 190, 239>>
\* struct.calcsize('!4sBBI')
HEADER_SIZE == 10

\* the 'I' of the format read with the least significant byte first
unpack_uint32_LittleEndian(b) == b[1] + b[2] * 256 + b[3] * 65536 + b[4] * 16777216
\* the 'I' of the format written with the least significant byte first
pack_uint32_LittleEndian(n) ==
    << n % 256, (n \div 256) % 256, (n \div 65536) % 256, (n \div 16777216) % 256 >>

\* '!I': an unsigned 32-bit integer, most significant byte first
pack_uint32(n) ==
    << (n \div 16777216) % 256, (n \div 65536) % 256, (n \div 256) % 256, n % 256 >>
unpack_uint32(b) == b[1] * 16777216 + b[2] * 65536 + b[3] * 256 + b[4]

\* VPNProtocol.create_packet: header + data
create_packet_bytes(msg_type, data) ==
    MagicOctets \o << VERSION, msg_type >> \o pack_uint32(Len(data)) \o data

\* what parse_packet returns, or the ValueError it raises
Parsed(msg_type, payload) == [ok |-> TRUE, err |-> "", type |-> msg_type, payload |-> payload]
ParseFailure(e) == [ok |-> FALSE, err |-> e, type |-> 0, payload |-> <<>>]

\* data[a:b] of Python, 0-based and clipped to the bytes there are
Slice(data, a, b) ==
    SubSeq(data, a + 1, IF b < Len(data) THEN b ELSE Len(data))

\* parse_packet without its test of the payload's length
parse_packet_bytes_NoLengthCheck(data) ==
    IF Len(data) < HEADER_SIZE THEN ParseFailure("Packet too short")
    ELSE LET magic == Slice(data, 0, 4)
             version == data[5]
             msg_type == data[6]
             length == unpack_uint32(Slice(data, 6, 10))
         IN  IF magic # MagicOctets THEN ParseFailure("Invalid magic bytes")
             ELSE IF version # VERSION THEN ParseFailure("Unsupported version")
             ELSE Parsed(msg_type, Slice(data, 10, 10 + length))

\* VPNProtocol.parse_packet
parse_packet_bytes(data) ==
    IF Len(data) < HEADER_SIZE THEN ParseFailure("Packet too short")
    ELSE LET magic == Slice(data, 0, 4)
             version == data[5]
             msg_type == data[6]
             length == unpack_uint32(Slice(data, 6, 10))
         IN  IF magic # MagicOctets THEN ParseFailure("Invalid magic bytes")
             ELSE IF version # VERSION THEN ParseFailure("Unsupported version")
             ELSE IF Len(data) < 10 + length THEN ParseFailure("Incomplete packet")
             ELSE Parsed(msg_type, Slice(data, 10, 10 + length))

\* the inputs: every type byte the protocol defines and two it does not,
\* every payload of up to MaxPayload bytes over three byte values, and one
\* payload whose length does not fit one byte
MsgTypes == (MSG_HANDSHAKE..MSG_AUTH_FAILURE) \cup {0, 255}
CodecBytes == {0, 65, 255}
RECURSIVE BytesUpTo(_)
BytesUpTo(n) ==
    IF n = 0 THEN { <<>> }
    ELSE BytesUpTo(n - 1)
            \cup {Append(b, x) : b \in {c \in BytesUpTo(n - 1) : Len(c) = n - 1}, x \in CodecBytes}
LongPayload == [i \in 1..258 |-> 65]
CodecPayloads == BytesUpTo(MaxPayload) \cup {LongPayload}

\* what may reach parse_packet in place of a packet: the packet, a prefix of
\* it, the packet with a byte of its magic or its version changed, with
\* both changed, with a length field that promises one byte more, and with a
\* byte behind it
Received(pkt) ==
    {pkt, Append(pkt, 0)}
        \cup {SubSeq(pkt, 1, k) : k \in {0, 3, 9, 10, Len(pkt) - 1}}
        \cup {[pkt EXCEPT ![i] = 0] : i \in 1..4}
        \cup {[pkt EXCEPT ![5] = v] : v \in {0, 2}}
        \cup {[pkt EXCEPT ![1] = 0, ![5] = 2], [pkt EXCEPT ![10] = (@ + 1) % 256]}

\* a call of create_packet or parse_packet: the type and payload the packet
\* was built from, the packet, the bytes parsed and what parsing returned
CodecCall(op, msg_type, data, packet, input, result) ==
    [op |-> op, msg_type |-> msg_type, data |-> data, packet |-> packet,
     input |-> input, result |-> result]

\* VPNProtocol.create_packet(msg_type, data)
CreatePacket(msg_type, data) ==
    /\ call' = CodecCall("create_packet", msg_type, data,
                         create_packet_bytes(msg_type, data), <<>>, ParseFailure(""))
    /\ UNCHANGED <<svars, engine, other>>

\* VPNProtocol.parse_packet, on what became of the packet just built
ParsePacket ==
    /\ call.op = "create_packet"
    /\ \E input \in Received(call.packet) :
          call' = [call EXCEPT !.op = "parse_packet", !.input = input,
                               !.result = parse_packet_bytes(input)]
    /\ UNCHANGED <<svars, engine, other>>

NextCodec ==
    \/ \E t \in MsgTypes, P \in CodecPayloads : CreatePacket(t, P)
    \/ ParsePacket

SpecCodec == Init /\ [][NextCodec]_vars

----------------------------------------------------------------------------
(* VPNEncryption on bytes.  A blob is the sequence of its bytes: the 16 of  *)
(* the nonce, the 16 of the GCM tag, then one byte of ciphertext for each   *)
(* byte of plaintext.  The bytes themselves are symbolic: a ciphertext byte *)
(* names the key, the nonce and the position it was produced at and the     *)
(* plaintext byte it hides; a tag byte names the key, the nonce and the     *)
(* whole plaintext.                                                         *)

\* encrypt calls made on one engine
MaxCalls == 3

AES_IV_SIZE == 16
\* the 16 of "AES_IV_SIZE + 16": the length of the GCM tag
TAG_SIZE == 16

\* the values os.urandom(16) returns to the calls of encrypt, by number
Urandom == 1..MaxCalls
\* os.urandom(16): 16 bytes that no earlier call was given.  (A repeat has
\* probability 2^-128 for each pair of calls and is left out, as are a forged
\* tag and two passwords with one key.)
Fresh(drawn) == Urandom \ drawn

SymByte(part, key, iv, x, at) == [part |-> part, key |-> key, iv |-> iv, x |-> x, at |-> at]
\* the 16 bytes of nonce n
IvBytes(n) == [i \in 1..AES_IV_SIZE |-> SymByte("iv", <<>>, n, <<>>, i)]
\* encryptor.tag after data was encrypted under key and nonce n
TagBytes(key, n, data) == [i \in 1..TAG_SIZE |-> SymByte("tag", key, n, data, i)]
\* encryptor.update(data) + encryptor.finalize(): GCM is a stream mode
CtBytes(key, n, data) == [i \in 1..Len(data) |-> SymByte("ct", key, n, << data[i] >>, i)]

\* the nonce 16 bytes are, or 0 when they are no nonce urandom returned
NonceOf(iv) == IF \E n \in Urandom : iv = IvBytes(n)
               THEN CHOOSE n \in Urandom : iv = IvBytes(n)
               ELSE 0

\* VPNEncryption.encrypt with the nonce urandom returned: iv + tag + ciphertext
encrypt_bytes(key, data, iv) ==
    IvBytes(iv) \o TagBytes(key, iv, data) \o CtBytes(key, iv, data)

CipherOk(pt) == [ok |-> TRUE, err |-> "", pt |-> pt]
CipherError(e) == [ok |-> FALSE, err |-> e, pt |-> <<>>]

\* what the decryptor makes of ciphertext ct under key and nonce n: the
\* plaintext, when every byte was produced under them at its position
Decrypts(key, n, ct) ==
    \A i \in 1..Len(ct) :
        /\ ct[i].part = "ct" /\ ct[i].key = key /\ ct[i].iv = n /\ ct[i].at = i
Plain(ct) == [i \in 1..Len(ct) |-> ct[i].x[1]]

\* decrypt taking the tag from the first 16 bytes and the nonce from the next
decrypt_bytes_TagFirst(key, data) ==
    IF Len(data) < AES_IV_SIZE + 16 THEN CipherError("Invalid encrypted data")
    ELSE LET tag == Slice(data, 0, 16)
             iv == Slice(data, 16, AES_IV_SIZE + 16)
             ciphertext == Slice(data, AES_IV_SIZE + 16, Len(data))
             n == NonceOf(iv)
         IN  IF n # 0 /\ Decrypts(key, n, ciphertext)
                      /\ tag = TagBytes(key, n, Plain(ciphertext))
             THEN CipherOk(Plain(ciphertext))
             ELSE CipherError("InvalidTag")

\* decrypt returning what the decryptor's update gave it, the tag unverified
decrypt_bytes_NoTag(key, data) ==
    IF Len(data) < AES_IV_SIZE + 16 THEN CipherError("Invalid encrypted data")
    ELSE LET iv == Slice(data, 0, AES_IV_SIZE)
             ciphertext == Slice(data, AES_IV_SIZE + 16, Len(data))
             n == NonceOf(iv)
         IN  IF n # 0 /\ Decrypts(key, n, ciphertext)
             THEN CipherOk(Plain(ciphertext))
             ELSE CipherError("InvalidTag")

\* VPNEncryption.decrypt
decrypt_bytes(key, data) ==
    IF Len(data) < AES_IV_SIZE + 16 THEN CipherError("Invalid encrypted data")
    ELSE LET iv == Slice(data, 0, AES_IV_SIZE)
             tag == Slice(data, AES_IV_SIZE, AES_IV_SIZE + 16)
             ciphertext == Slice(data, AES_IV_SIZE + 16, Len(data))
             n == NonceOf(iv)
         IN  IF n # 0 /\ Decrypts(key, n, ciphertext)
                      /\ tag = TagBytes(key, n, Plain(ciphertext))
             THEN CipherOk(Plain(ciphertext))     \* finalize() verified the tag
             ELSE CipherError("InvalidTag")

\* the inputs: passwords, the salt urandom gives the engine, plaintexts
EnginePasswords == {"admin123", "x"}
CipherPlaintexts == { <<>>, <<104, 105>>, <<0>> }

\* VPNEncryption.__init__
VPNEncryption(password, salt) ==
    [password |-> password, salt |-> salt, key |-> derive_key(password, salt),
     drawn |-> {}, out |-> <<>>]

\* a call on the engine: the plaintext given or returned, the blob returned
\* or given
CipherCall(op, pt, blob, result) == [op |-> op, pt |-> pt, blob |-> blob, result |-> result]

NewEngine(W) ==
    /\ engine = NoEngine
    /\ \E salt \in Salts : engine' = VPNEncryption(W, salt)
    /\ call' = CipherCall("init", <<>>, <<>>, CipherError(""))
    /\ UNCHANGED <<svars, other>>

\* Encrypt with a nonce fixed when the engine was built
Encrypt_FixedNonce(M) ==
    /\ engine # NoEngine
    /\ Len(engine.out) < MaxCalls
    /\ LET blob == encrypt_bytes(engine.key, M, 1) IN
       /\ engine' = [engine EXCEPT !.drawn = @ \cup {1},
                                   !.out = Append(@, [pt |-> M, blob |-> blob])]
       /\ call' = CipherCall("encrypt", M, blob, CipherError(""))
    /\ UNCHANGED <<svars, other>>

\* VPNEncryption.encrypt(M)
Encrypt(M) ==
    /\ engine # NoEngine
    /\ Len(engine.out) < MaxCalls
    /\ \E iv \in Fresh(engine.drawn) :
          LET blob == encrypt_bytes(engine.key, M, iv) IN
          /\ engine' = [engine EXCEPT !.drawn = @ \cup {iv},
                                      !.out = Append(@, [pt |-> M, blob |-> blob])]
          /\ call' = CipherCall("encrypt", M, blob, CipherError(""))
    /\ UNCHANGED <<svars, other>>

\* what may reach decrypt in place of a blob the engine returned: the blob,
\* the blob cut short, with its last byte changed, and the blob an engine built
\* from the same password with another salt returned for the same plaintext
Tampered(e, o) ==
    {o.blob, SubSeq(o.blob, 1, 31), SubSeq(o.blob, 1, Len(o.blob) - 1),
     [o.blob EXCEPT ![Len(o.blob)].at = 0]}
        \cup {encrypt_bytes(derive_key(e.password, salt), o.pt, NonceOf(Slice(o.blob, 0, 16)))
                 : salt \in Salts \ {e.salt}}

\* VPNEncryption.decrypt, on what became of the blob just returned
Decrypt ==
    /\ call.op = "encrypt"
    /\ \E blob \in Tampered(engine, engine.out[Len(engine.out)]) :
          call' = CipherCall("decrypt", call.pt, blob, decrypt_bytes(engine.key, blob))
    /\ UNCHANGED <<svars, engine, other>>

NextCipher ==
    \/ \E W \in EnginePasswords : NewEngine(W)
    \/ \E M \in CipherPlaintexts : Encrypt(M)
    \/ Decrypt

SpecCipher == Init /\ [][NextCipher]_vars

----------------------------------------------------------------------------
(* Two VPNEncryption objects side by side: the two of test_vpn.py, each     *)
(* with the salt urandom gave it, and the pair of a session, where the      *)
(* server builds its object from a user's password and gives it the salt of *)
(* the client's.  Each encrypts once; what reaches decrypt may be forged.   *)

\* the passwords: two that differ in their characters, and one that differs
\* from "x" by a trailing NUL character only
KeyPasswords == {"admin123", "x", NulPadded}
\* the empty plaintext makes the shortest blob there is: 32 bytes
KeyPlaintexts == { <<>>, <<104, 105>> }

EngineNames == {"engine", "other"}
EngineOf(who) == IF who = "engine" THEN engine ELSE other

\* a call on one of the two objects: the object called (by), the object
\* whose blob was given to decrypt (of), the plaintext behind that blob, the
\* bytes given and what decrypt returned
KeyCall(op, by, of, pt, blob, result) ==
    [op |-> op, by |-> by, of |-> of, pt |-> pt, blob |-> blob, result |-> result]

\* VPNEncryption(password), a second object
NewPeer(W) ==
    /\ engine # NoEngine
    /\ other = NoEngine
    /\ \E salt \in Salts : other' = VPNEncryption(W, salt)
    /\ call' = KeyCall("init", "other", "other", <<>>, <<>>, CipherError(""))
    /\ UNCHANGED <<svars, engine>>

\* ClientHandler._handle_auth: temp_encryption.salt = self.client_salt;
\* temp_encryption.key = temp_encryption._derive_key()
AdoptSalt ==
    /\ engine # NoEngine
    /\ other # NoEngine
    /\ other.out = <<>>
    /\ other' = [other EXCEPT !.salt = engine.salt,
                              !.key = derive_key(other.password, engine.salt)]
    /\ call' = KeyCall("adopt_salt", "other", "engine", <<>>, <<>>, CipherError(""))
    /\ UNCHANGED <<svars, engine>>

\* the first call of encrypt on the first object
FirstEncrypt(M) == engine.out = <<>> /\ Encrypt(M)

\* the first call of encrypt on the second object
PeerEncrypt(M) ==
    /\ other # NoEngine
    /\ other.out = <<>>
    /\ \E iv \in Fresh(other.drawn) :
          LET blob == encrypt_bytes(other.key, M, iv) IN
          /\ other' = [other EXCEPT !.drawn = @ \cup {iv},
                                    !.out = Append(@, [pt |-> M, blob |-> blob])]
          /\ call' = KeyCall("encrypt", "other", "other", M, blob, CipherError(""))
    /\ UNCHANGED <<svars, engine>>

\* what may reach decrypt in place of a blob: the blob, no bytes, its first
\* 31 bytes, the blob under another nonce urandom returns, with a byte of its
\* nonce or of its tag changed, with one more byte of ciphertext and, when
\* it has ciphertext, without the last byte of it and with that byte changed
\* into the one that hides the next plaintext byte
Forged(blob) ==
    LET key == blob[AES_IV_SIZE + 1].key
        n == blob[1].iv
        last == Len(blob)
    IN  {blob, <<>>, SubSeq(blob, 1, 31),
         IvBytes((n % MaxCalls) + 1) \o SubSeq(blob, AES_IV_SIZE + 1, last),
         [blob EXCEPT ![1].at = 0],
         [blob EXCEPT ![AES_IV_SIZE + 1].at = 0],
         Append(blob, SymByte("ct", key, n, <<0>>, last - 31))}
            \cup (IF last > AES_IV_SIZE + 16
                  THEN {SubSeq(blob, 1, last - 1),
                        [blob EXCEPT ![last].x = << (@[1] + 1) % 256 >>]}
                  ELSE {})

\* VPNEncryption.decrypt on one object, on what became of the blob one of
\* the two returned.  decrypt changes neither object, so a call that follows
\* another call of decrypt returns what it returns here.
DecryptBy(who, of) ==
    /\ call.op # "decrypt"
    /\ EngineOf(who) # NoEngine
    /\ EngineOf(of).out # <<>>
    /\ \E blob \in Forged(EngineOf(of).out[1].blob) :
          call' = KeyCall("decrypt", who, of, EngineOf(of).out[1].pt, blob,
                          decrypt_bytes(EngineOf(who).key, blob))
    /\ UNCHANGED <<svars, engine, other>>

NextKeys ==
    \/ \E W \in KeyPasswords : NewEngine(W)
    \/ \E W \in KeyPasswords : NewPeer(W)
    \/ AdoptSalt
    \/ \E M \in KeyPlaintexts : FirstEncrypt(M)
    \/ \E M \in KeyPlaintexts : PeerEncrypt(M)
    \/ \E who \in EngineNames, of \in EngineNames : DecryptBy(who, of)

SpecKeys == Init /\ [][NextKeys]_vars

----------------------------------------------------------------------------
(* Reading the step just taken *)

\* the handler that acted, before and after its step
Pre == ev.pre
Cur == clients[ev.conn]

\* the bytes read were a whole, well-formed frame
WellFramed(data) ==
    /\ data.avail \in {"exact", "more"}
    /\ data.frame.magic = MAGIC_BYTES
    /\ data.frame.version = VERSION

\* the step received a message of type t and dispatched it
Processed(t) == ev.op = "handle" /\ WellFramed(ev.data) /\ ev.data.frame.type = t
Payload == ev.data.frame.payload

\* the step ended the processing of an Auth message
AuthAnswered ==
    \/ Processed(MSG_AUTH) /\ Cur.pc = "recv"
    \/ ev.op = "scan" /\ Cur.pc = "recv"
\* the payload of the Auth message the step worked on
AuthPayload == IF ev.op = "scan" THEN Pre.it.payload ELSE Payload

\* the fields of a session the claims speak of
Identity(h) == <<h.authenticated, h.username, h.encryption>>
Open(h) == h.st = "open" /\ h.running

\* payload is the auth data of user u sealed under the key of (p, salt)
ValidFor(payload, u, p, salt) ==
    /\ payload.kind = "blob"
    /\ payload.key = <<p, salt>>
    /\ payload.pt = AuthData(u)

\* a Handshake the server accepts: it decodes and carries the server's version
Acceptable(payload) ==
    /\ payload.kind = "hs"
    /\ payload.encryption_salt \in Salts
    /\ payload.client_version = VERSION

----------------------------------------------------------------------------
(* C1..C10 *)

C4_UnauthDataDropped ==
    (Processed(MSG_DATA) /\ ~Pre.authenticated) =>
        /\ ev.sent = <<>>
        /\ Cur = Pre
        /\ Open(Cur) /\ Cur.pc = "recv"

\* an unauthenticated session was sent Data that a user's key opens
C4_Witness ==
    /\ Processed(MSG_DATA) /\ ~Pre.authenticated
    /\ Pre.client_salt = "s1"
    /\ Payload = ClientBlob("admin123", "s1", Text("hello"))
    /\ ev.sent = <<>>

\* C6: an Auth message processed on a connection on which no Handshake was
\* answered is answered AuthFailure at once and leaves the session as it
\* was, unauthenticated, whatever its payload.
C6_AuthBeforeHandshake ==
    (Processed(MSG_AUTH) /\ ev.conn \notin handshaken) =>
        /\ ev.sent = << send_auth_failure >>
        /\ ~Cur.authenticated
        /\ Cur = Pre

\* a payload sealed with admin's password arrived after only a rejected
\* Handshake, and was refused
C6_Witness ==
    /\ Processed(MSG_AUTH) /\ ev.conn \notin handshaken
    /\ Payload.kind = "blob" /\ Payload.key[1] = "admin123" /\ Payload.pt = AuthData("admin")
    /\ HasUser(users, "admin")
    /\ ev.sent = << send_auth_failure >>

\* C7: processing a Handshake that decodes and carries the server's version
\* records exactly its salt, sends exactly one Handshake reply with
\* server_version and status ok, and changes no other field of the session.
C7_HandshakeAccepted ==
    (Processed(MSG_HANDSHAKE) /\ Acceptable(Payload)) =>
        /\ Cur.client_salt = Payload.encryption_salt
        /\ ev.sent = << create_packet(MSG_HANDSHAKE,
                          [kind |-> "hsreply", server_version |-> VERSION, status |-> "ok"]) >>
        /\ Identity(Cur) = Identity(Pre)
        /\ Cur = [Pre EXCEPT !.client_salt = Payload.encryption_salt]

\* an authenticated session accepted a Handshake with another salt
C7_Witness ==
    /\ Processed(MSG_HANDSHAKE) /\ Acceptable(Payload)
    /\ Pre.authenticated /\ Pre.client_salt = "s1" /\ Cur.client_salt = "s2"
    /\ Len(ev.sent) = 1

\* C8: processing a Handshake with another version, or one that does not
\* decode, sends nothing, records no salt, changes no field of the session
\* and leaves the connection open and the loop running.
C8_HandshakeRejected ==
    (Processed(MSG_HANDSHAKE) /\ ~Acceptable(Payload)) =>
        /\ ev.sent = <<>>
        /\ Cur.client_salt = Pre.client_salt
        /\ Cur = Pre
        /\ Open(Cur) /\ Cur.pc = "recv"
        /\ (ev.conn \in handshaken <=> Pre.client_salt # NoSalt)

\* a Handshake of version 2 was dropped on a fresh connection
C8_Witness ==
    /\ Processed(MSG_HANDSHAKE)
    /\ Payload = HandshakeRequest(VERSION + 1, "s1")
    /\ Cur.client_salt = NoSalt /\ Open(Cur)
    /\ ev.sent = <<>>

\* the step raised RuntimeError in the loop over the users: the dict changed
\* size, or holds more items than the iterator expected, since the loop began
ScanRaised ==
    /\ ev.op = "scan"
    /\ \/ Pre.it.used # Used(users)
       \/ Pre.it.left = 0 /\ NextSlot(users, Pre.it.pos) # 0

\* the Auth message just answered was sealed for the recorded salt
SealedForSalt ==
    /\ AuthAnswered /\ ev.conn \in handshaken
    /\ AuthPayload.kind = "blob" /\ AuthPayload.key[2] = Pre.client_salt

\* C2: after a Handshake with salt s, an Auth payload sealed under key(p, s)
\* that carries username u, for an entry (u, p) of the directory, is
\* answered AuthSuccess and binds the session to u; one sealed under
\* key(p', s) for a p' that is no entry's password is answered AuthFailure.
C2_AuthOutcome ==
    SealedForSalt =>
        /\ \A u \in UserNames(users) :
              ValidFor(AuthPayload, u, PasswordOf(users, u), Pre.client_salt) =>
                  /\ ev.sent = << send_auth_success >>
                  /\ Cur.authenticated /\ Cur.username = u
        /\ AuthPayload.key[1] \notin Passwords(users) =>
              ev.sent = << send_auth_failure >>

\* the same outcome, for every answer that is not given by the handler of
\* RuntimeError: valid credentials are refused only when the directory was
\* changed while the loop over it ran
AuthOutcomeUnlessRaised == ScanRaised \/ C2_AuthOutcome

\* C3: the connection of a peer that holds no directory password, and
\* replays the Handshake and Auth frames it recorded on a legitimate
\* connection, is never authenticated.
C3_ReplayRejected == ~clients[Attacker].authenticated

\* the server sent exactly one Data message, which opens under the key of
\* the session to "Echo: " followed by M, and changed nothing
EchoSent(M) ==
    /\ Len(ev.sent) = 1
    /\ ev.sent[1].type = MSG_DATA
    /\ ev.sent[1].magic = MAGIC_BYTES /\ ev.sent[1].version = VERSION
    /\ decrypt(Pre.encryption, ev.sent[1].payload) = [ok |-> TRUE, pt |-> Echo(M)]
    /\ Cur = Pre

\* an authenticated session processed Data sealed under its key
DataUnderSessionKey ==
    /\ Processed(MSG_DATA) /\ Pre.authenticated
    /\ Payload.kind = "blob" /\ Payload.key = Pre.encryption

\* C5: for every plaintext M, an authenticated session that processes Data
\* holding M sealed under its key sends exactly one Data message that opens
\* under that key to "Echo: " followed by M.
C5_EchoAnyPlaintext == DataUnderSessionKey => EchoSent(Payload.pt)

\* the echo is given for every plaintext that is valid UTF-8: the only
\* plaintexts left without a reply are those bytes.decode() refuses
EchoOfText ==
    (DataUnderSessionKey /\ Decodable(Payload.pt)) => EchoSent(Payload.pt)

\* C9 as stated: right after an AuthFailure reply the session is not
\* authenticated and the connection is open.
C9_FailureLeavesUnauthenticated ==
    (AuthAnswered /\ ev.sent = << send_auth_failure >>) =>
        ~Cur.authenticated /\ Open(Cur)

\* C9 amended: processing an Auth message that is answered AuthFailure
\* changes neither the authenticated flag nor the username nor the key (a
\* session that was not authenticated is not authenticated afterwards, one
\* that was stays so), and the connection is open with the loop running.
C9_FailureChangesNothing ==
    /\ (AuthAnswered /\ ev.sent = << send_auth_failure >>) =>
          /\ Identity(Cur) = Identity(Pre)
          /\ ~Pre.authenticated => ~Cur.authenticated
          /\ Open(Cur) /\ Cur.pc = "recv"
    /\ ((Processed(MSG_AUTH) \/ ev.op = "scan") /\ ev.sent = <<>>) =>
          /\ Identity(Cur) = Identity(Pre)
          /\ Open(Cur) /\ Cur.pc = "scan"

\* a wrong password was refused after the whole directory was tried
C9_Witness ==
    /\ ev.op = "scan" /\ ev.sent = << send_auth_failure >>
    /\ ~ScanRaised
    /\ Pre.it.payload.kind = "blob" /\ Pre.it.payload.key[1] = "wrong"
    /\ ~Cur.authenticated /\ Open(Cur)

\* C10: in every state a session holds a key exactly when it is
\* authenticated, and a username exactly when it is authenticated; a step
\* that binds a username binds one that is a key of the directory then.
C10_SessionInvariant ==
    /\ \A c \in Conns :
          /\ clients[c].authenticated <=> clients[c].encryption # NoEncryption
          /\ clients[c].authenticated <=> clients[c].username # NoUser
    /\ (ev.op \in {"handle", "scan"} /\ Cur.username # Pre.username) =>
          HasUser(users, Cur.username)

\* a session is still bound to a user that has since left the directory
C10_Witness ==
    /\ clients[Legit].authenticated
    /\ clients[Legit].encryption = <<"admin123", "s1">>
    /\ clients[Legit].username = "admin"
    /\ ~HasUser(users, "admin")

----------------------------------------------------------------------------
(* C11..C20 *)

\* C11: once a session is authenticated, no later message on its connection
\* (Handshake with another salt, further Auth, Data, Keepalive, unknown
\* types) changes its key or the username it is bound to, and the reply to
\* Data is sealed under that key.
C11_KeyFixed ==
    (ev.op \in {"handle", "scan"} /\ Pre.authenticated) =>
        /\ Cur.encryption = Pre.encryption
        /\ Cur.username = Pre.username
        /\ (Processed(MSG_DATA) /\ ev.sent # <<>>) =>
              ev.sent[1].payload.key = Pre.encryption

\* the key and the username of an authenticated session change only when a
\* further Auth message is answered AuthSuccess
KeyFixedUnlessReauthenticated ==
    C11_KeyFixed \/ (ev.op = "scan" /\ ev.sent = << send_auth_success >>)

\* C12: a session that processes a Disconnect message sends nothing and
\* leaves its loop with the stream closed; a session that has left its loop
\* never acts again, so no message that follows the Disconnect is processed
\* or answered.
C12_DisconnectEnds ==
    /\ Processed(MSG_DISCONNECT) =>
          /\ ev.sent = <<>>
          /\ ~Cur.running /\ Cur.st = "closed"
          /\ Cur = Closed([Pre EXCEPT !.running = FALSE])
    /\ \A c \in Conns : ~clients[c].running => clients[c].st = "closed"
    /\ ev.op \in {"handle", "scan"} => Pre.running /\ Pre.st = "open"

\* an authenticated session was sent Disconnect, with further bytes behind
\* it in the same read
C12_Witness ==
    /\ Processed(MSG_DISCONNECT) /\ ev.data.avail = "more"
    /\ Pre.authenticated
    /\ Cur.st = "closed" /\ ~Cur.running

\* the step ended the loop over the users that an Auth message started
ScanAnswered == ev.op = "scan" /\ Cur.pc = "recv"
\* the directory as it was when that loop began
Began == Pre.it.began
\* entry i was in the directory when the loop began, is the same now, and
\* the payload is the auth data of its user sealed with its password
ValidThroughout(i) ==
    /\ i \in LiveSlots(Began) /\ i \in LiveSlots(users) /\ users[i] = Began[i]
    /\ ValidFor(Pre.it.payload, Began[i].name, Began[i].password, Pre.client_salt)
\* the session was answered AuthSuccess and is bound to the user of entry i
BoundTo(i) ==
    /\ ev.sent = << send_auth_success >>
    /\ Cur.authenticated /\ Cur.username = Began[i].name

\* C14: an Auth message processed after add_user(u, p) returned, with the
\* credentials (u, p), is answered AuthSuccess without a restart; one
\* processed after remove_user(u) returned, with u's old credentials, is
\* answered AuthFailure.
C14_DirectoryChangesVisible ==
    ScanAnswered =>
        /\ \A i \in 1..Len(Began) :
              (i > Len(DefaultUsers) /\ ValidThroughout(i)) => BoundTo(i)
        /\ \A i \in 1..Len(DefaultUsers) :
              (/\ ~HasUser(Began, DefaultUsers[i].name)
               /\ ValidFor(Pre.it.payload, DefaultUsers[i].name,
                           DefaultUsers[i].password, Pre.client_salt))
                  => ev.sent = << send_auth_failure >>

\* directory changes are visible to every attempt whose loop over the users
\* is not ended by RuntimeError
ChangesVisibleUnlessRaised == ScanRaised \/ C14_DirectoryChangesVisible

\* C15: when add_user or remove_user for another user changes the directory
\* while the loop over the users runs for an Auth message that carries valid
\* credentials of user u, the attempt is still answered AuthSuccess and the
\* session is bound to u.
C15_MutationHarmless ==
    (ScanAnswered /\ users # Began) =>
        \A i \in 1..Len(Began) : ValidThroughout(i) => BoundTo(i)

\* every other user's entry is the same in the two directories
OthersUnchanged(before, after, u) ==
    \A v \in (UserNames(before) \cup UserNames(after)) \ {u} :
        /\ HasUser(before, v) /\ HasUser(after, v)
        /\ PasswordOf(after, v) = PasswordOf(before, v)

\* C16: add_user(u, p) makes users[u] = p, overwriting a previous password,
\* and changes no other entry; remove_user(u) removes u when present and
\* does nothing when u is absent; usernames stay unique; a freshly
\* constructed server is not running and its directory contains admin.
C16_DirectoryOperations ==
    /\ ev.op = "init" => server_running = "new" /\ HasUser(users, "admin")
    /\ \A i, j \in LiveSlots(users) : users[i].name = users[j].name => i = j
    /\ ev.op = "add_user" =>
          /\ HasUser(users, ev.username)
          /\ PasswordOf(users, ev.username) = ev.password
          /\ OthersUnchanged(ev.before, users, ev.username)
    /\ ev.op = "remove_user" =>
          /\ ~HasUser(users, ev.username)
          /\ OthersUnchanged(ev.before, users, ev.username)
          /\ ~HasUser(ev.before, ev.username) => users = ev.before

\* add_user has just replaced the password of a user that was there
C16_Witness ==
    /\ ev.op = "add_user"
    /\ HasUser(ev.before, ev.username)
    /\ PasswordOf(ev.before, ev.username) # ev.password
    /\ PasswordOf(users, ev.username) = ev.password
    /\ Used(users) = Used(ev.before)

\* what processing every message of msgs in order, each exactly once, does
\* to session h: the fields it leaves and the replies it writes
RECURSIVE ProcessAll(_, _, _, _)
ProcessAll(h, msgs, dict, iv) ==
    IF msgs = <<>> \/ ~h.running THEN Result(h, <<>>)
    ELSE LET r == handle_message(h, msgs[1].type, msgs[1].payload, dict, iv)
             rest == ProcessAll(r.h, Tail(msgs), dict, iv)
         IN  Result(rest.h, r.sent \o rest.sent)

\* C17: however the stream delivers the peer's messages to the reads, the
\* server processes every message exactly once and in the order sent: the
\* replies a read brings about are the replies to each message it delivered,
\* in order, and the session is left as processing all of them leaves it.
C17_InOrderNoneSkipped ==
    (ev.op = "handle" /\ WellFramed(ev.data)) =>
        \E iv \in Nonces :
            LET r == ProcessAll(Pre, Delivered(ev.data), users, iv) IN
            /\ ev.sent = r.sent
            /\ Cur = IF r.h.running THEN r.h ELSE Closed(r.h)

\* a read that delivers one whole message is processed as the claim says
OneMessagePerReadInOrder ==
    (ev.op = "handle" /\ WellFramed(ev.data) /\ ev.data.avail = "exact") =>
        \E iv \in Nonces :
            LET r == ProcessAll(Pre, Delivered(ev.data), users, iv) IN
            /\ ev.sent = r.sent
            /\ Cur = IF r.h.running THEN r.h ELSE Closed(r.h)

\* the read returned only a prefix of a message with a sound header
PrefixRead ==
    /\ ev.op = "handle" /\ ev.data.avail \in {"short", "partial"}
    /\ ev.data.frame.magic = MAGIC_BYTES /\ ev.data.frame.version = VERSION

\* C18: when a read returns only a prefix of a message, the handler keeps
\* the bytes and waits for the rest: nothing is sent, the session is as it
\* was and the connection is not terminated.
C18_PartialKept ==
    PrefixRead => (ev.sent = <<>> /\ Cur = Pre /\ Open(Cur) /\ Cur.pc = "recv")

\* the bytes a read returned do not decode
FramingFailure(e) ==
    /\ e.op = "handle" /\ e.data.avail # "none"
    /\ ~parse_packet(e.data).ok

\* C19: when the bytes a read returned fail to decode (too short, wrong
\* magic, wrong version, truncated payload), that connection's loop ends and
\* its stream is closed with nothing sent; a closed session never acts
\* again; the accept loop, the directory and every other session keep their
\* state.
C19_FramingFailureLocal ==
    [][ /\ FramingFailure(ev') =>
              /\ clients'[ev'.conn] = Closed(clients[ev'.conn])
              /\ ev'.sent = <<>>
              /\ \A d \in Conns \ {ev'.conn} : clients'[d] = clients[d]
              /\ server_running' = server_running
              /\ users' = users
        /\ \A c \in Conns : clients[c].st = "closed" => clients'[c] = clients[c]
      ]_vars

\* the attacker's connection was closed on a wrong magic while the client's
\* session is authenticated and open
C19_Witness ==
    /\ FramingFailure(ev) /\ ev.conn = Attacker
    /\ ev.data.frame.magic # MAGIC_BYTES
    /\ clients[Attacker].st = "closed"
    /\ clients[Legit].authenticated /\ Open(clients[Legit])
    /\ server_running = "running"

\* an authenticated session processed Data that its key does not open
CipherFailure ==
    /\ Processed(MSG_DATA) /\ Pre.authenticated
    /\ ~decrypt(Pre.encryption, Payload).ok

\* C20 as stated: a Data message that fails decryption on an authenticated
\* session ends that connection's receive loop.
C20_CipherFailureEnds == CipherFailure => (Cur.st = "closed" \/ ~Cur.running)

\* C20 amended: a Data message that fails decryption on an authenticated
\* session (shorter than 32 bytes, or sealed under another key) is dropped:
\* nothing is sent, no field of the session changes, the connection stays
\* open and the receive loop goes on.
C20_CipherFailureDropped ==
    CipherFailure =>
        /\ ev.sent = <<>>
        /\ Cur = Pre
        /\ Open(Cur) /\ Cur.pc = "recv"

\* Data sealed under another password's key was dropped by a session that
\* stays authenticated
C20_Witness ==
    /\ CipherFailure
    /\ Payload.kind = "blob" /\ Payload.key # Pre.encryption
    /\ Cur.authenticated /\ Open(Cur)

\* the one content-less Keepalive message
KeepaliveReply == << create_packet(MSG_KEEPALIVE, EmptyPayload) >>
\* the server's handler processed a Keepalive message
ServerGotKeepalive == Processed(MSG_KEEPALIVE)
\* the client's receive_data read a Keepalive message
ClientGotKeepalive == cev.op = "receive_data" /\ cev.read.type = MSG_KEEPALIVE

\* C13 as stated: whichever peer receives a Keepalive message, the server's
\* handler or the client in receive_data, replies with exactly one
\* content-less Keepalive message.
C13_KeepaliveRepliedByBoth ==
    /\ ServerGotKeepalive => ev.sent = KeepaliveReply
    /\ ClientGotKeepalive => cev.sent = KeepaliveReply

\* C13 amended: the server's handler replies to a Keepalive message with
\* exactly one content-less Keepalive message and changes nothing else; the
\* client's receive_data consumes a Keepalive message, returns empty bytes
\* and sends no reply.
C13_KeepaliveRepliedByServer ==
    /\ ServerGotKeepalive => (ev.sent = KeepaliveReply /\ Cur = Pre)
    /\ ClientGotKeepalive =>
          /\ cev.sent = <<>>
          /\ cev.ret = Ret("bytes", Text(""))

\* the client's receive_data has read the server's reply to the keepalive
\* thread's message
C13_Witness ==
    /\ ClientGotKeepalive
    /\ client.connected /\ client.workers = 1
    /\ clients[client.conn].authenticated
    /\ cev.sent = <<>> /\ c2s[client.conn] = <<>>

----------------------------------------------------------------------------
(* C21..C30 *)

\* the step about to be recorded is one of the session on connection c
SessionStep(c) == ev'.conn = c /\ ev'.op \in {"handle", "scan"}
\* the session on connection c is blocked in recv
Blocked(c) == clients[c].st = "open" /\ clients[c].pc = "recv"

\* C21: a step of the session on one connection (a message processed, a
\* turn of its loop over the users, its end) changes no field of the session
\* on another connection, and a session that is open can take its next step
\* whatever the other session is doing, blocked in recv included.
C21_SessionsIndependent ==
    /\ [][ \A c \in Conns : SessionStep(c) =>
               \A d \in Conns \ {c} : clients'[d] = clients[d] ]_vars
    /\ [](\A c \in Conns : clients[c].st = "open" =>
               ENABLED (HandleTwo(c) \/ AuthScan(c)))

\* the client's session has completed Handshake, Auth and a Data exchange
\* while the other session, accepted and never served, is blocked in recv
C21_Witness ==
    /\ ev.conn = Legit /\ Processed(MSG_DATA) /\ EchoSent(Text("hello"))
    /\ Legit \in handshaken /\ clients[Legit].authenticated
    /\ Blocked(Attacker) /\ clients[Attacker] = NewHandler
    /\ Attacker \notin handshaken

\* C22: after stop() the running flag is false and the listening endpoint
\* is closed, no connection is accepted from then on and start() returns;
\* stop() leaves the sessions in flight alone, and each of them ends when its
\* read returns no data.
C22_StopEndsAccepting ==
    /\ ev.op = "stop" => server_running = "stopped"
    /\ ev.op = "accept" => server_running = "running"
    /\ (ev.op = "handle" /\ ev.data.avail = "none") => Cur.st = "closed"

\* stop() itself changes no session, and a session goes on being served
\* after it: no handler reads the server's running flag
StopLeavesSessions ==
    [][ev'.op = "stop" => clients' = clients]_vars

\* a message was processed and answered on a session after stop()
ServedAfterStop ==
    /\ server_running \in {"stopped", "returned"}
    /\ ev.op = "handle" /\ ev.sent # <<>> /\ Open(Cur)

\* the step about to be recorded is one of connect()
ConnectStep == cev'.op \in {"connect", "handshake"}
\* the step writes a message of type t
Writes(t) == \E i \in DOMAIN cev'.sent : cev'.sent[i].type = t
\* the reply the client's recv returns is a whole message of type t
Got(t) ==
    /\ s2c[client.conn] # <<>>
    /\ Reply(Head(s2c[client.conn])).ok
    /\ Reply(Head(s2c[client.conn])).type = t

ConnectRefusedGarbage ==
    /\ cev.op = "connect" /\ cev.ret = Returned("False")
    /\ cev.read.magic = "XXXX"
    /\ ~client.connected /\ client.workers = 0

\* a keepalive thread has just written a Keepalive message
KeepaliveSent == cev.op = "keepalive" /\ cev.sent # <<>>

\* C24: over any sequence of connect() and disconnect() calls a client has
\* at most one keepalive thread alive, and a Keepalive message is written
\* only while the client is connected, never after disconnect().
C24_OneKeepaliveTask ==
    /\ client.workers <= 1
    /\ KeepaliveSent => (client.connected /\ client.running)

\* a thread that finds the client disconnected when it wakes ends without
\* writing
KeepaliveEndsWhenDisconnected ==
    (cev.op = "keepalive" /\ ~client.running) => cev.sent = <<>>

\* two keepalive threads are alive and one of them has written a Keepalive
\* message on the second connection
TwoKeepaliveTasks ==
    /\ client.workers = 2 /\ client.conn = 2
    /\ KeepaliveSent

\* the step about to be recorded is a call of send_data or receive_data
DataCall == cev'.op \in {"send_data", "receive_data"}

\* C25: a freshly constructed client has connected = false; send_data and
\* receive_data called while connected = false (before connect, after a
\* failed connect, after disconnect) raise, and nothing is written to or
\* read from a socket.
C25_NotConnectedRaises ==
    /\ ~client.connected
    /\ [][ (DataCall /\ ~client.connected) =>
              /\ cev'.ret = Returned("raise")
              /\ cev'.sent = <<>> /\ cev'.read = NoFrame
              /\ c2s' = c2s /\ s2c' = s2c
              /\ client' = client
         ]_vars

\* send_data has raised on a client whose connect() failed: its socket is
\* open, what it wrote is still on the wire, and it is not connected
C25_Witness ==
    /\ cev.op = "send_data" /\ cev.ret = Returned("raise")
    /\ ~client.connected /\ client.socket = "open" /\ client.pc = "idle"
    /\ client.encryption # NoEncryption
    /\ c2s[client.conn] # <<>>

\* C26: for every type byte t and every payload P, parse_packet applied to
\* create_packet(t, P) returns exactly (t, P).
C26_FramingRoundTrip ==
    /\ call.op = "create_packet" =>
          parse_packet_bytes(call.packet) = Parsed(call.msg_type, call.data)
    /\ (call.op = "parse_packet" /\ call.input = call.packet) =>
          call.result = Parsed(call.msg_type, call.data)

\* a packet whose payload is longer than 255 bytes was built and parsed back
C26_Witness ==
    /\ call.op = "parse_packet" /\ call.input = call.packet
    /\ call.result.ok /\ call.result.type = MSG_DATA
    /\ Len(call.result.payload) > 255

\* the bytes parsed begin with a sound header: ten bytes, the magic, version 1
SoundHeader(b) ==
    /\ Len(b) >= 10
    /\ SubSeq(b, 1, 4) = MagicOctets
    /\ b[5] = 1

\* C27: parse_packet raises "Packet too short" for every buffer shorter than
\* 10 bytes, "Invalid magic bytes" for every buffer of at least 10 bytes
\* whose first 4 bytes are not the magic, "Unsupported version" for a right
\* magic with a version byte other than 1, and "Incomplete packet" for a
\* sound header followed by fewer bytes than its length field says; in none
\* of these cases does it return a type and a payload.
C27_DecodeRejections ==
    call.op = "parse_packet" =>
        LET b == call.input IN
        /\ Len(b) < 10 => call.result = ParseFailure("Packet too short")
        /\ (Len(b) >= 10 /\ SubSeq(b, 1, 4) # MagicOctets) =>
              call.result = ParseFailure("Invalid magic bytes")
        /\ (Len(b) >= 10 /\ SubSeq(b, 1, 4) = MagicOctets /\ b[5] # 1) =>
              call.result = ParseFailure("Unsupported version")
        /\ (SoundHeader(b)
              /\ Len(b) - 10 < b[7] * 16777216 + b[8] * 65536 + b[9] * 256 + b[10]) =>
              call.result = ParseFailure("Incomplete packet")
        /\ ~SoundHeader(b) => ~call.result.ok

\* a packet that arrived without the last byte of its payload was rejected
C27_Witness ==
    /\ call.op = "parse_packet"
    /\ SoundHeader(call.input)
    /\ call.input = SubSeq(call.packet, 1, Len(call.packet) - 1)
    /\ call.result = ParseFailure("Incomplete packet")

\* C28: for every type byte t and payload P, create_packet(t, P) is exactly
\* 10 + len(P) bytes long: the 4 bytes of the magic, the version byte 1, the
\* type byte t, len(P) as 4 bytes with the most significant first, then P.
C28_FrameLayout ==
    call.op = "create_packet" =>
        LET p == call.packet IN
        /\ Len(p) = 10 + Len(call.data)
        /\ <<p[1], p[2], p[3], p[4]>> = <<222, 173, 190, 239>>
        /\ p[5] = 1
        /\ p[6] = call.msg_type
        /\ \A i \in 7..10 : p[i] \in 0..255
        /\ p[7] * 16777216 + p[8] * 65536 + p[9] * 256 + p[10] = Len(call.data)
        /\ SubSeq(p, 11, Len(p)) = call.data

\* a packet was built whose length field needs its two low bytes
C28_Witness ==
    /\ call.op = "create_packet"
    /\ Len(call.data) = 258
    /\ call.packet[9] = 1 /\ call.packet[10] = 2
    /\ call.packet[6] = call.msg_type

\* the blobs the engine has returned, with the plaintext of each
Out == engine.out

\* C29: for every password W and plaintext M, on an engine built from W,
\* decrypt applied to the blob encrypt(M) returned gives M back, and that
\* blob differs from M (it is 32 bytes longer).
C29_CipherRoundTrip ==
    /\ call.op = "encrypt" =>
          /\ decrypt_bytes(engine.key, call.blob) = CipherOk(call.pt)
          /\ Len(call.blob) = Len(call.pt) + 32
          /\ call.blob # call.pt
    /\ \A i \in 1..Len(Out) :
          (call.op = "decrypt" /\ call.blob = Out[i].blob) =>
              call.result = CipherOk(Out[i].pt)

\* decrypt has returned the plaintext of the blob the engine's second call
\* of encrypt returned
C29_Witness ==
    /\ call.op = "decrypt" /\ Len(Out) = 2
    /\ call.blob = Out[2].blob
    /\ call.result = CipherOk(<<104, 105>>)
    /\ engine.password = "x"

----------------------------------------------------------------------------
(* C31..C40 *)

\* the object decrypt was called on, and the one whose blob it was given
By == EngineOf(call.by)
From == EngineOf(call.of)
\* decrypt was given a blob as encrypt returned it
Genuine == call.op = "decrypt" /\ call.blob = From.out[1].blob

\* C31: for any two different passwords W1 and W2, an object built from W2
\* fails, returning no plaintext, when it decrypts a blob an object built
\* from W1 returned, also when the two have the same salt.
C31_CrossKeyFailure ==
    (Genuine /\ By.password # From.password) => ~call.result.ok

\* it fails whenever the two passwords make different HMAC keys
CrossKeyUnlessPadded ==
    (Genuine /\ hmac_key(By.password) # hmac_key(From.password)) =>
        call.result = CipherError("InvalidTag")

\* the object built from "x" and a NUL character, given the salt of the
\* object built from "x", has returned the plaintext of that object's blob
PaddedPasswordDecrypts ==
    /\ Genuine /\ call.by = "other" /\ call.of = "engine"
    /\ engine.password = "x" /\ other.password = NulPadded
    /\ other.salt = engine.salt
    /\ call.result = CipherOk(<<104, 105>>)

\* the blobs encrypt has returned under the key of the object decrypt was
\* called on, with the plaintext of each
SealedUnder(key) ==
    {e.out[1] : e \in {x \in {engine, other} : x.key = key /\ x.out # <<>>}}

\* C32: decrypt raises "Invalid encrypted data" for every buffer shorter
\* than 32 bytes; for a buffer of at least 32 bytes it returns a plaintext
\* only if the tag (bytes 16..31) is the tag of that plaintext under the
\* object's key and the nonce (bytes 0..15), which only a blob encrypt
\* returned under that key carries; a blob whose nonce, tag or ciphertext
\* was altered, cut or extended is rejected.
C32_NoUnauthenticatedPlaintext ==
    call.op = "decrypt" =>
        LET b == call.blob IN
        /\ Len(b) < 32 => call.result = CipherError("Invalid encrypted data")
        /\ call.result.ok =>
              /\ Len(b) >= 32
              /\ SubSeq(b, 17, 32) =
                    TagBytes(By.key, NonceOf(SubSeq(b, 1, 16)), call.result.pt)
              /\ [pt |-> call.result.pt, blob |-> b] \in SealedUnder(By.key)
        /\ b # From.out[1].blob => ~call.result.ok

\* the object that returned a blob was given it back with its last
\* ciphertext byte changed into one that decrypts to another plaintext byte,
\* and rejected it on the tag
C32_Witness ==
    /\ call.op = "decrypt" /\ call.by = call.of
    /\ Len(call.blob) = 34
    /\ call.blob # From.out[1].blob
    /\ SubSeq(call.blob, 1, 33) = SubSeq(From.out[1].blob, 1, 33)
    /\ Decrypts(By.key, NonceOf(SubSeq(call.blob, 1, 16)), SubSeq(call.blob, 33, 34))
    /\ call.result = CipherError("InvalidTag")

\* C33: the key of an object is a function of its password and its salt
\* only; two objects with the same password and the same salt hold the same
\* key and each decrypts what the other encrypted (the server's object, given
\* the salt of the client's, holds the client's key); two objects with the
\* same password and different salts hold different keys and neither
\* decrypts a blob of the other.
C33_KeyDerivation ==
    /\ \A e \in {engine, other} :
          e # NoEngine => e.key = derive_key(e.password, e.salt)
    /\ (engine # NoEngine /\ other # NoEngine /\ engine.password = other.password) =>
          (engine.key = other.key <=> engine.salt = other.salt)
    /\ (Genuine /\ By.password = From.password) =>
          /\ By.salt = From.salt => call.result = CipherOk(From.out[1].pt)
          /\ By.salt # From.salt => ~call.result.ok

\* the second object, built with another salt and then given the salt of
\* the first, has encrypted, and the first has decrypted that blob
C33_Witness ==
    /\ Genuine /\ call.by = "engine" /\ call.of = "other"
    /\ engine.password = "admin123" /\ other.password = "admin123"
    /\ engine.salt = other.salt /\ engine.key = other.key
    /\ engine.out # <<>> /\ engine.out[1].blob # other.out[1].blob
    /\ call.result = CipherOk(<<104, 105>>)

\* the second object has decrypted a blob of the first, whose salt it was given
PeerDecryptsAfterAdopting ==
    /\ Genuine /\ call.by = "other" /\ call.of = "engine"
    /\ engine.password = other.password
    /\ call.result = CipherOk(<<104, 105>>)

\* an object with the same password and another salt has rejected the blob
OtherSaltRejected ==
    /\ Genuine /\ By.password = From.password /\ By.salt # From.salt
    /\ call.result = CipherError("InvalidTag")

\* the step worked on an Auth message: it received one, or took a turn of
\* the loop over the users
AuthStep == Processed(MSG_AUTH) \/ ev.op = "scan"
\* the step wrote an AuthSuccess or an AuthFailure message
SentAuthReply ==
    \E i \in DOMAIN ev.sent : ev.sent[i].type \in {MSG_AUTH_SUCCESS, MSG_AUTH_FAILURE}

\* C34: the processing of an Auth message writes exactly one message, at its
\* end, and nothing before; that message is AuthSuccess or AuthFailure; a
\* processing answered AuthSuccess has set the session's user and key (to
\* the user named in the message and the key that opens it), one answered
\* AuthFailure has left them as they were, so that a change of them is
\* always answered AuthSuccess; no other step writes an AuthSuccess or
\* AuthFailure message.
C34_OneReplyPerAuth ==
    /\ AuthAnswered =>
          /\ ev.sent \in { << send_auth_success >>, << send_auth_failure >> }
          /\ ev.sent = << send_auth_success >> =>
                /\ ev.op = "scan"
                /\ Cur.authenticated
                /\ decrypt(Cur.encryption, AuthPayload).ok
                /\ UsernameIs(decrypt(Cur.encryption, AuthPayload).pt, Cur.username)
                /\ \E i \in LiveSlots(users) : Cur = Authenticated(Pre, users[i])
          /\ ev.sent = << send_auth_failure >> => Identity(Cur) = Identity(Pre)
    /\ (AuthStep /\ ~AuthAnswered) => (ev.sent = <<>> /\ Cur.pc = "scan")
    /\ SentAuthReply => AuthAnswered

\* a session bound to a user was sent an Auth message that names another
\* user under a key the directory does not hold, and answered AuthFailure
C34_Witness ==
    /\ ev.op = "scan" /\ AuthAnswered
    /\ Pre.authenticated /\ Pre.username = "bob"
    /\ AuthPayload = ClientBlob("wrong", "s1", AuthData("admin"))
    /\ ev.sent = << send_auth_failure >>
    /\ Identity(Cur) = Identity(Pre)

\* a session that is authenticated already was authenticated again
ReauthAnswered ==
    /\ ev.op = "scan" /\ Pre.authenticated
    /\ ev.sent = << send_auth_success >>

\* the directory no longer holds the user and password the session was
\* authenticated with
Revoked(h) ==
    \/ ~HasUser(users, h.username)
    \/ derive_key(PasswordOf(users, h.username), h.encryption[2]) # h.encryption

\* C35: a session whose authenticated flag is true keeps it true, whatever
\* message it processes next (an Auth message answered AuthFailure included)
\* and whatever is done to the directory (its own user removed or given
\* another password), and goes on being served: Data holding text sealed
\* under its key is echoed.
C35_NeverRevoked ==
    /\ [][\A c \in Conns : clients[c].authenticated => clients'[c].authenticated]_vars
    /\ [](AuthAnswered /\ Pre.authenticated /\ ev.sent = << send_auth_failure >>
             => Cur = [Pre EXCEPT !.pc = "recv", !.it = NoIter])
    /\ []((DataUnderSessionKey /\ Decodable(Payload.pt)) => EchoSent(Payload.pt))

\* a session authenticated as admin, whose password has been changed since,
\* has been sent Data and has echoed it
C35_Witness ==
    /\ Processed(MSG_DATA) /\ Pre.authenticated /\ Pre.username = "admin"
    /\ HasUser(users, "admin") /\ PasswordOf(users, "admin") = "x"
    /\ Revoked(Pre)
    /\ EchoSent(Text("hello"))
    /\ Cur.authenticated

\* an authenticated session was answered AuthFailure after its user was removed
FailureAfterRemoval ==
    /\ AuthAnswered /\ Pre.authenticated /\ ev.sent = << send_auth_failure >>
    /\ ~HasUser(users, Pre.username)
    /\ Cur.authenticated

\* the step about to be recorded is the receive_data() that follows a
\* send_data(M) of the caller
ReadsReply == client.pc = "echo_wait" /\ cev'.op = "receive_data"

\* C36: on a connected client the receive_data() that follows send_data(M)
\* returns "Echo: " followed by M, however the caller's two calls interleave
\* with the keepalive thread and the server's Keepalive replies; and
\* receive_data returns empty bytes only when it read a message that is not
\* Data.
C36_EchoPairing ==
    /\ [][ReadsReply => cev'.ret = Ret("bytes", Echo(Text("hello")))]_vars
    /\ []((cev.op = "receive_data" /\ cev.ret = Ret("bytes", Text("")))
             => cev.read.type # MSG_DATA)

\* the reply is the echo whenever the message read is a Data message, and
\* empty bytes are returned for no Data message
EchoWhenDataRead ==
    /\ [][(ReadsReply /\ Head(s2c[client.conn]).type = MSG_DATA)
             => cev'.ret = Ret("bytes", Echo(Text("hello")))]_vars
    /\ []((cev.op = "receive_data" /\ cev.ret = Ret("bytes", Text("")))
             => cev.read.type # MSG_DATA)

\* the receive_data() that followed send_data(M) has returned empty bytes
\* for the server's Keepalive reply, and the echo of M is still unread
KeepaliveReadForEcho ==
    /\ cev.op = "receive_data" /\ cev.ret = Ret("bytes", Text(""))
    /\ cev.read = create_packet(MSG_KEEPALIVE, EmptyPayload)
    /\ client.connected /\ client.pc = "idle"
    /\ s2c[client.conn] # <<>>
    /\ Head(s2c[client.conn]).type = MSG_DATA

\* the types of the messages the step about to be recorded writes
WrittenTypes == {cev'.sent[i].type : i \in DOMAIN cev'.sent}

\* C37: whatever calls of connect, send_data, receive_data and disconnect
\* are made and whenever a keepalive thread runs, every message the client
\* writes goes on the connection of its socket; Handshake is what it writes
\* first on a connection and only then; Auth is written only on reading a
\* Handshake reply; Data, Keepalive and Disconnect are written only on a
\* connection on which the client has read AuthSuccess.
C37_ClientOrdering ==
    [][ cev'.sent # <<>> =>
          /\ c2s'[client'.conn] = c2s[client'.conn] \o cev'.sent
          /\ \A c \in Conns \ {client'.conn} : c2s'[c] = c2s[c]
          /\ MSG_HANDSHAKE \in WrittenTypes <=> client'.conn # client.conn
          /\ MSG_AUTH \in WrittenTypes => (client.pc = "hs_wait" /\ Got(MSG_HANDSHAKE))
          /\ WrittenTypes \cap {MSG_DATA, MSG_KEEPALIVE, MSG_DISCONNECT} # {} =>
                client.conn \in client.welcomed
      ]_vars

\* send_data has written Data on a connection whose Auth was answered
\* AuthFailure: connect() was called on a connected client and returned False
DataBeforeAuthSuccess ==
    /\ cev.op = "send_data" /\ cev.sent # <<>>
    /\ client.conn = 2 /\ client.welcomed = {1}
    /\ client.connected /\ client.workers = 1

\* a keepalive thread has written on a connection whose Handshake has not
\* been answered yet
KeepaliveDuringConnect ==
    /\ KeepaliveSent /\ client.pc = "hs_wait"
    /\ client.conn \notin client.welcomed

\* the step processed a well-framed message of a type that has no handler
OtherTypeProcessed ==
    /\ ev.op = "handle" /\ WellFramed(ev.data)
    /\ ev.data.frame.type \notin
          {MSG_HANDSHAKE, MSG_AUTH, MSG_DATA, MSG_KEEPALIVE, MSG_DISCONNECT}

\* C38: a session that processes a well-framed message whose type is none of
\* Handshake, Auth, Data, Keepalive, Disconnect (AuthSuccess or AuthFailure
\* from a client, or a value the protocol does not define) writes nothing,
\* changes none of its fields, stays open in its receive loop and can
\* process the next message.
C38_OtherTypesIgnored ==
    [](OtherTypeProcessed =>
          /\ ev.sent = <<>>
          /\ Cur = Pre
          /\ Open(Cur) /\ Cur.pc = "recv"
          /\ ENABLED HandleTypes(ev.conn))

\* an authenticated session was sent AuthFailure carrying a blob its key
\* opens, and is as it was
C38_Witness ==
    /\ OtherTypeProcessed
    /\ ev.data.frame.type = MSG_AUTH_FAILURE
    /\ Payload = ClientBlob("admin123", "s1", Text("hello"))
    /\ Pre.authenticated /\ Cur = Pre /\ ev.sent = <<>>

\* a session that has not seen a Handshake was sent a type the protocol does
\* not define
UndefinedTypeBeforeHandshake ==
    /\ OtherTypeProcessed /\ ev.data.frame.type = 255
    /\ Pre = NewHandler /\ Cur = NewHandler

\* a Disconnect message is in the bytes the peer has written and the
\* handler has not read
DisconnectInStream(c) == \E i \in 1..Len(c2s[c]) : c2s[c][i].type = MSG_DISCONNECT

SessionEnded(c) == clients[c].st = "closed"

\* C39: once the peer has written a Disconnect message, or has closed its
\* end of the connection, the session ends: the loop of handle() is left
\* and the handler's socket is closed.
C39_SessionEnds ==
    (DisconnectInStream(Legit) \/ PeerClosed(Legit)) ~> SessionEnded(Legit)

\* a peer that closes its end has its session ended
EndOfStreamEnds == PeerClosed(Legit) ~> SessionEnded(Legit)

\* the socket is closed when the loop is left and not before: a turn of the
\* loop closes it exactly when it read no bytes, read bytes that do not
\* parse or cleared running, and a closed session takes no step
ClosedOnExitOnly ==
    /\ [](ev.op = "handle" =>
            (SessionEnded(ev.conn) <=>
                \/ ev.data.avail = "none"
                \/ ~parse_packet(ev.data).ok
                \/ ~Cur.running))
    /\ [](ev.op = "scan" => ~SessionEnded(ev.conn))
    /\ [][SessionEnded(Legit) => clients' = clients]_vars

\* a Disconnect read behind another message was dropped and the session is
\* open, the stream empty and the peer's end open
DisconnectDropped ==
    /\ ev.op = "handle" /\ ev.data.avail = "more"
    /\ Open(Cur) /\ Cur.pc = "recv"
    /\ c2s[Legit] = <<>> /\ ~PeerClosed(Legit)

\* when every read returns one message, a peer that writes Disconnect or
\* closes its end has its session ended
EndsWhenReadOneByOne ==
    \/ <>(ev.op = "handle" /\ ev.data.avail = "more")
    \/ (DisconnectInStream(Legit) \/ PeerClosed(Legit)) ~> SessionEnded(Legit)

DisconnectMessage == create_packet(MSG_DISCONNECT, EmptyPayload)

\* the client is torn down: both flags false and no socket of its own open
TornDown(cl) == ~cl.connected /\ ~cl.running /\ cl.socket \in {"none", "closed"}

\* the step is a call of disconnect()
DisconnectCalled == cev'.op = "disconnect" /\ client'.pc = "idle" /\ client.pc = "idle"

\* C40: disconnect() writes a Disconnect message only when the client is
\* connected, and one at most; it reads nothing from the connection (it
\* waits for no reply) and returns; whatever it found, and whether or not
\* its send succeeded, it leaves connected and running false and the
\* client's socket closed (a client that never made a socket has none); on
\* a client that is already torn down it writes nothing and changes nothing.
C40_DisconnectAdvisoryIdempotent ==
    [][DisconnectCalled =>
          /\ cev'.sent \in {<<>>, << DisconnectMessage >>}
          /\ cev'.sent # <<>> => client.connected
          /\ c2s' = IF cev'.sent = <<>> THEN c2s
                    ELSE [c2s EXCEPT ![client.conn] = Append(@, DisconnectMessage)]
          /\ s2c' = s2c /\ cev'.read = NoFrame /\ cev'.ret = Returned("")
          /\ TornDown(client')
          /\ client'.socket = "none" <=> client.socket = "none"
          /\ TornDown(client) => cev'.sent = <<>> /\ client' = client /\ c2s' = c2s
    ]_vars

\* disconnect() of a connected client has written Disconnect on its
\* connection and torn the client down
C40_Witness ==
    /\ cev.op = "disconnect" /\ cev.sent = << DisconnectMessage >>
    /\ client.conn \in client.welcomed
    /\ TornDown(client) /\ client.socket = "closed"
    /\ client.conn \in client.hung_up

\* no disconnect() is called on a client that is already torn down
NoSecondDisconnect ==
    [][~(DisconnectCalled /\ TornDown(client) /\ client.socket = "closed")]_vars

\* no disconnect() of a connected client has its send raise
NoFailedSend ==
    [][~(DisconnectCalled /\ client.connected /\ client.socket = "reset")]_vars

====
